---- MODULE Spec2Model ----
(***************************************************************************)
(* A model of the icloudds synchronisation engine: the event pipeline      *)
(* (queue, per-path coalescing, folder-scope conflation), the reconciler   *)
(* main loop, the two worker pools with their retry protocol, and the      *)
(* background refresh of the remote tree.                                  *)
(*                                                                         *)
(* Paths are sequences of path components; the root folder "." is the      *)
(* empty sequence (Path(".").parts == ()).                                 *)
(***************************************************************************)
EXTENDS Integers, Sequences, FiniteSets, TLC

\* ------------------------------------------------------------------------
\* Bounds of the model
\* ------------------------------------------------------------------------
\* longest batch handed to _coalesce_events
MaxEvents == 3
\* the clock stops here: modification times are 1..MaxClock
MaxClock == 2
\* remote calls the drive lets fail in a run
MaxFaults == 1

\* constants.MAX_RETRIES
MAX_RETRIES == 3

\* ------------------------------------------------------------------------
\* State
\* ------------------------------------------------------------------------
VARIABLES
    \* the coalescer on its own: the queue the batch was read from, the
    \* batch (the argument `events`), the returned list, and the position
    cq_name, cq_events, cq_coalesced, cq_pc,
    \* a PathMap on its own: ThreadSafePathDict.data, the call of prune or
    \* re_key in progress, the keys its loop has still to visit, the data
    \* at the time of the call, what another thread's keys() last returned,
    \* and the position of the calling thread
    pm_data, pm_call, pm_snapshot, pm_before, pm_seen, pm_pc,
    \* the filter of the trees: BaseTree._ignore_regexes and
    \* BaseTree._includes_regexes, as lists of patterns
    ignore_regexes, includes_regexes,
    \* BaseTree.ignore on its own: the path string of the last call (<< >>
    \* before the first) and the value returned
    ig_path, ig_result,
    \* ICloudTree.refresh on its own: the files in the root and in the trash
    \* of the drive, the file records of the maps self._root and
    \* self._trash, data['fileCount'] of the root node and of the trash node
    \* as fetched, the value refresh() returns, and its position
    rc_drive, rc_root, rc_trash, rc_fileCount, rc_trashFileCount,
    rc_succeeded, rc_pc,
    jb_disabled, jb_auth, jb_dirty, jb_refresh, jb_inflight, jb_probes,
    jb_builds, jb_last,
    mk_root, mk_drive, mk_path, mk_before, mk_calls, mk_cls, mk_pc,
    lk_pc, lk_refresh_lock, lk_set_lock, lk_entered, lk_pending, lk_events,
    lk_collected, lk_changed, lk_dirty, lk_refresh, lk_torn, lk_elapsed,
    lk_job, lk_probes, lk_builds, lk_budget, lk_last, lk_counted,
    \* the initial sync on its own: the restore paths of the items in the
    \* drive's trash
    tr_trash,
    \* the sync directory and the drive, as maps from path to FileInfo
    disk, drive,
    \* self._local._root, self._icloud, self._refresh (<< >> is None)
    local, icloud, refresh,
    \* self._event_queue, self._refresh_queue, run()'s event_collector and
    \* the coalesced events _dispatch_events has still to dispatch
    event_queue, refresh_queue, event_collector, dispatching,
    \* self._suppressed_paths
    suppressed,
    \* the futures of both pools, in submission order
    futures,
    \* the ActionResult a remote call returned to the reconciler thread
    result,
    \* the remote call the reconciler thread makes itself (rename)
    sync_op,
    \* self._refresh_lock: "free", "main" or "job"
    refresh_lock,
    \* position of run(), position of the refresh job, timeloop started
    pc, job_pc, timeloop,
    \* the "exhausted all retries, giving up" lines logged, oldest first
    \* (each with the number of the attempt that gave up),
    \* and the last line logged about a refresh tree
    error_log, refresh_log,
    \* the time, and the number of remote calls the drive may still fail
    clock, fault_budget

\* the variables of the specifications of one component on its own
rc_vars ==
    <<rc_drive, rc_root, rc_trash, rc_fileCount, rc_trashFileCount,
      rc_succeeded, rc_pc>>

jb_vars ==
    <<jb_disabled, jb_auth, jb_dirty, jb_refresh, jb_inflight, jb_probes,
      jb_builds, jb_last>>

mk_vars == <<mk_root, mk_drive, mk_path, mk_before, mk_calls, mk_cls, mk_pc>>

lk_vars ==
    <<lk_pc, lk_refresh_lock, lk_set_lock, lk_entered, lk_pending, lk_events,
      lk_collected, lk_changed, lk_dirty, lk_refresh, lk_torn, lk_elapsed,
      lk_job, lk_probes, lk_builds, lk_budget, lk_last, lk_counted>>

tr_vars == <<tr_trash>>

extra_vars == <<mk_vars, lk_vars, tr_vars>>

unit_vars ==
    <<pm_data, pm_call, pm_snapshot, pm_before, pm_seen, pm_pc,
      ignore_regexes, includes_regexes, ig_path, ig_result, rc_vars,
      jb_vars, extra_vars>>

filter_vars == <<ignore_regexes, includes_regexes, ig_path, ig_result>>

cq_vars == <<cq_name, cq_events, cq_coalesced, cq_pc, unit_vars>>

main_vars ==
    <<disk, drive, local, icloud, refresh, event_queue, refresh_queue,
      event_collector, dispatching, suppressed, futures, result, sync_op,
      refresh_lock, pc, job_pc, timeloop, error_log, refresh_log, clock,
      fault_budget>>

vars == <<cq_vars, main_vars>>

\* ------------------------------------------------------------------------
\* Paths
\* ------------------------------------------------------------------------
ROOT_FOLDER_NAME == << >>

\* Path.is_relative_to(other): other is a prefix of p, component by component
is_relative_to(p, other) ==
    /\ Len(other) <= Len(p)
    /\ \A i \in 1..Len(other) : p[i] = other[i]

\* Path.parent ("." is its own parent)
parent(p) == IF p = << >> THEN << >> ELSE SubSeq(p, 1, Len(p) - 1)

\* Strings are sequences of characters.  str(Path): the parts joined by "/",
\* and "." for the root
RECURSIVE str(_)
str(names) ==
    IF names = << >> THEN <<".">>
    ELSE IF Len(names) = 1 THEN names[1]
    ELSE str(SubSeq(names, 1, Len(names) - 1)) \o <<"/">> \o names[Len(names)]

\* Path(s).parts: s split at "/", empty and "." components dropped
RECURSIVE parts(_)
parts(s) ==
    LET seps == { i \in 1..Len(s) : s[i] = "/" }
        keep(c) == c # << >> /\ c # <<".">>
    IN IF seps = {}
       THEN IF keep(s) THEN << s >> ELSE << >>
       ELSE LET i == CHOOSE j \in seps : \A m \in seps : m <= j
                last == SubSeq(s, i + 1, Len(s))
                front == parts(SubSeq(s, 1, i - 1))
            IN IF keep(last) THEN Append(front, last) ELSE front

\* ThreadSafePathDict._normalize: str(Path(key))
_normalize(key) == str(parts(key))

RECURSIVE replace(_, _, _)
\* str.replace(old, new) for a non-empty old: every non-overlapping
\* occurrence of old, from the left
replace(s, old, new) ==
    IF Len(s) < Len(old) THEN s
    ELSE IF SubSeq(s, 1, Len(old)) = old
         THEN new \o replace(SubSeq(s, Len(old) + 1, Len(s)), old, new)
         ELSE << s[1] >> \o replace(Tail(s), old, new)

\* the path string of a path whose names are one character each
as_posix(p) == str([i \in 1..Len(p) |-> << p[i] >>])

\* ------------------------------------------------------------------------
\* The filter (BaseTree.__init__, BaseTree.ignore).  A pattern is a list of
\* tokens: ".*", "$" (at the end), or a character that matches itself.
\* The character "~" stands for the text ".com-apple-bird" and "!" for
\* ".DS_Store".
\* ------------------------------------------------------------------------
builtin_ignore_regexes == << <<".*", "~", ".*">>, <<".*", "!">> >>

RECURSIVE re_match(_, _)
\* re.match(regex, s): the pattern matches a prefix of s
re_match(regex, s) ==
    IF regex = << >> THEN TRUE
    ELSE IF Head(regex) = "$" THEN s = << >> /\ Tail(regex) = << >>
    ELSE IF Head(regex) = ".*"
         THEN \E i \in 0..Len(s) : re_match(Tail(regex), SubSeq(s, i + 1, Len(s)))
    ELSE s # << >> /\ s[1] = Head(regex) /\ re_match(Tail(regex), Tail(s))

RECURSIVE any_match(_, _)
\* the loop `for regex in regexes: if re.match(regex, s): return ...`
\* reaches a return
any_match(regexes, s) ==
    IF regexes = << >> THEN FALSE
    ELSE IF re_match(Head(regexes), s) THEN TRUE
    ELSE any_match(Tail(regexes), s)

ignore_under_includes_first(ignores, includes, s) ==
    IF includes # << >> /\ any_match(includes, s) THEN FALSE
    ELSE IF any_match(ignores, s) THEN TRUE
    ELSE IF includes = << >> THEN FALSE
    ELSE TRUE

\* BaseTree.ignore for the path string s under the given lists
ignore_under(ignores, includes, s) ==
    IF any_match(ignores, s) THEN TRUE
    ELSE IF includes = << >> THEN FALSE
    ELSE IF any_match(includes, s) THEN FALSE
    ELSE TRUE

\* self._local.ignore(path) / self._icloud.ignore(path): both trees are
\* built from the same Context
ignore(path) == ignore_under(ignore_regexes, includes_regexes, as_posix(path))

\* the event's dest_path when the event is not a move
NoPath == <<"">>

\* paths of the batches given to the coalescer: a folder or file a, an
\* entry a/b inside it, and an unrelated folder x
CoalescePaths == { <<"a">>, <<"a", "b">>, <<"x">> }

\* wall-clock values time() returns while the batch is queued
Timestamps == {1, 2}

\* ------------------------------------------------------------------------
\* Event kinds (event/icloud_event.py)
\* ------------------------------------------------------------------------
FileCreated == "ICDSFileCreatedEvent"
FileModified == "ICDSFileModifiedEvent"
FileMoved == "ICDSFileMovedEvent"
FileDeleted == "ICDSFileDeletedEvent"
FolderCreated == "ICDSFolderCreatedEvent"
FolderModified == "ICDSFolderModifiedEvent"
FolderMoved == "ICDSFolderMovedEvent"
FolderDeleted == "ICDSFolderDeletedEvent"
ICloudFolderModified == "ICloudFolderModifiedEvent"

\* on_modified drops DirModifiedEvent, so FolderModified is never queued
WatcherKinds ==
    {FileCreated, FileModified, FileMoved, FileDeleted,
     FolderCreated, FolderMoved, FolderDeleted}

\* the (kind, src_path) pairs a batch read from the named queue is drawn
\* from: every watcher kind on a and a/b, folder moves and deletes on x
EventShapes(name) ==
    IF name = "eventQ"
    THEN (WatcherKinds \X { <<"a">>, <<"a", "b">> })
            \cup ({FolderMoved, FolderDeleted} \X { <<"x">> })
    ELSE {ICloudFolderModified} \X CoalescePaths

DeleteKinds == {FileDeleted, FolderDeleted}
MoveKinds == {FileMoved, FolderMoved}
CreateKinds == {FileCreated, FolderCreated}
\* the tuple of the second isinstance() of the move branch
MoveSelectKinds == {FileMoved, FolderModified}
CoveredKindsNoMove == {FileCreated, FileDeleted}

\* the file-level kinds a folder event covers
CoveredKinds == {FileMoved, FileCreated, FileDeleted}

\* QueuedEvent(timestamp, event); id stands for the object's identity
QueuedEvent(id, kind, src, dest, ts) ==
    [id |-> id, kind |-> kind, src_path |-> src, dest_path |-> dest,
     timestamp |-> ts]

\* ------------------------------------------------------------------------
\* Sequence helpers
\* ------------------------------------------------------------------------
RECURSIVE InsertByTimestamp(_, _)
\* insert e after every element whose timestamp is <= e's (stable)
InsertByTimestamp(s, e) ==
    IF s = << >> THEN << e >>
    ELSE IF s[Len(s)].timestamp <= e.timestamp THEN Append(s, e)
    ELSE Append(InsertByTimestamp(SubSeq(s, 1, Len(s) - 1), e), s[Len(s)])

RECURSIVE SortByTimestamp(_)
\* list.sort(key=lambda e: e.timestamp): a stable sort
SortByTimestamp(s) ==
    IF s = << >> THEN << >>
    ELSE InsertByTimestamp(SortByTimestamp(SubSeq(s, 1, Len(s) - 1)), s[Len(s)])

RECURSIVE PathOrder(_)
\* the keys of by_path in insertion order (first occurrence of each src_path)
PathOrder(s) ==
    IF s = << >> THEN << >>
    ELSE LET rest == PathOrder(SubSeq(s, 1, Len(s) - 1))
             p == s[Len(s)].src_path
         IN IF \E i \in 1..Len(rest) : rest[i] = p THEN rest ELSE Append(rest, p)

\* by_path[p]
EventsOfPath(s, p) == SelectSeq(s, LAMBDA e : e.src_path = p)

\* next(e for e in reversed(evs) if isinstance(e.event, kinds)), and dflt
\* when the generator is exhausted (StopIteration is swallowed)
LastOfKinds(evs, kinds, dflt) ==
    LET idx == { i \in 1..Len(evs) : evs[i].kind \in kinds }
    IN IF idx = {} THEN dflt
       ELSE evs[CHOOSE i \in idx : \A j \in idx : j <= i]

\* ------------------------------------------------------------------------
\* EventHandler._coalesce_events / _conflate_folder_events
\* ------------------------------------------------------------------------
\* the event kept for one path; evs is by_path[p] sorted by timestamp
FinalEventLastAlways(evs) == evs[Len(evs)]

FinalEventDeleteFirst(evs) ==
    IF \E i \in 1..Len(evs) : evs[i].kind \in DeleteKinds
    THEN evs[CHOOSE i \in 1..Len(evs) : evs[i].kind \in DeleteKinds
                    /\ \A j \in 1..(i-1) : evs[j].kind \notin DeleteKinds]
    ELSE IF \E i \in 1..Len(evs) : evs[i].kind \in MoveKinds
    THEN LastOfKinds(evs, MoveSelectKinds, evs[Len(evs)])
    ELSE IF evs[1].kind \in CreateKinds THEN evs[1]
    ELSE evs[Len(evs)]

FinalEvent(evs) ==
    IF \E i \in 1..Len(evs) : evs[i].kind \in DeleteKinds
    THEN LastOfKinds(evs, DeleteKinds, evs[Len(evs)])
    ELSE IF \E i \in 1..Len(evs) : evs[i].kind \in MoveKinds
    THEN LastOfKinds(evs, MoveSelectKinds, evs[Len(evs)])
    ELSE IF evs[1].kind \in CreateKinds THEN evs[1]
    ELSE evs[Len(evs)]

\* the list `coalesced` before the conflation passes
CoalescePerPath(evts) ==
    LET order == PathOrder(evts)
    IN [i \in 1..Len(order) |->
            FinalEvent(SortByTimestamp(EventsOfPath(evts, order[i])))]

\* is_nested of the loop over folder_evs: the loop breaks at the first other
\* folder event whose src_path differs from qe's
IsNested(qe, folder_evs) ==
    LET others == SelectSeq(folder_evs,
                    LAMBDA o : o.id # qe.id /\ o.src_path # qe.src_path)
    IN /\ others # << >>
       /\ is_relative_to(qe.src_path, others[1].src_path)

\* covered of the loop over folder_evs
IsCovered(qe, folder_evs) ==
    \E i \in 1..Len(folder_evs) :
        \/ qe.src_path = folder_evs[i].src_path
        \/ is_relative_to(qe.src_path, folder_evs[i].src_path)

_conflate_folder_events(evts, cls) ==
    LET folder_evs == SelectSeq(evts, LAMBDA qe : qe.kind = cls)
    IN IF folder_evs = << >> THEN evts
       ELSE SelectSeq(evts, LAMBDA qe :
                /\ ~(qe.kind = cls /\ IsNested(qe, folder_evs))
                /\ ~(qe.kind \in CoveredKinds /\ IsCovered(qe, folder_evs)))

_coalesce_events_unsorted(evts) ==
    _conflate_folder_events(
        _conflate_folder_events(CoalescePerPath(evts), FolderDeleted),
        FolderMoved)

_coalesce_events(evts) ==
    SortByTimestamp(
        _conflate_folder_events(
            _conflate_folder_events(CoalescePerPath(evts), FolderDeleted),
            FolderMoved))

\* ------------------------------------------------------------------------
\* Trees: the sync directory, the drive, LocalTree and ICloudTree
\* ------------------------------------------------------------------------
\* The reconciler is modelled over a flat folder: the root and two files in
\* it.  Nothing is ignored by the filters, the trash is empty and no other
\* device renames a document, so _apply_renames and
\* _delete_icloud_trash_items find nothing to do.
Files == { <<"f">>, <<"g">> }
TreePaths == {ROOT_FOLDER_NAME} \cup Files

\* FileInfo / FolderInfo, and the None a lookup of a missing key returns
Absent == [type |-> "absent", mtime |-> 0, size |-> 0]
Folder == [type |-> "folder", mtime |-> 0, size |-> 0]
File(m, s) == [type |-> "file", mtime |-> m, size |-> s]
IsFile(info) == info.type = "file"

\* ThreadSafePathDict after clear()
EmptyMap == [p \in TreePaths |-> Absent]
RootOnly == [EmptyMap EXCEPT ![ROOT_FOLDER_NAME] = Folder]

\* BaseTree.keys() and BaseTree.files()
Keys(t) == { p \in TreePaths : t[p] # Absent }
FilesOf(t) == { p \in TreePaths : IsFile(t[p]) }

\* an ICloudTree object: its _root, what its refresh() returned, and whether
\* refresh() has run (it leaves the object's thread pool shut down)
ICloudTree(root, succeeded, used) ==
    [root |-> root, succeeded |-> succeeded, used |-> used]

\* ICloudTree.refresh() on a tree object, given the drive: the trees it can
\* leave behind.  A first run walks the drive and succeeds when the counts
\* match; it fails with the walked tree on a count mismatch, with the root
\* alone when the walk raises, and with nothing when authentication fails.
\* A second run on the same object cannot submit to its pool and fails.
ICloudRefresh(tree, theDrive) ==
    IF tree.used
    THEN { ICloudTree(RootOnly, FALSE, TRUE), ICloudTree(EmptyMap, FALSE, TRUE) }
    ELSE { ICloudTree(theDrive, TRUE, TRUE),
           ICloudTree(theDrive, FALSE, TRUE),
           ICloudTree(RootOnly, FALSE, TRUE),
           ICloudTree(EmptyMap, FALSE, TRUE) }

\* ICloudTree.process_folder(path=".", recursive=False): add() of every child
\* the drive lists; entries of children that are gone stay in the tree
process_folder(root, theDrive) ==
    IF root[ROOT_FOLDER_NAME] = Absent THEN root
    ELSE [p \in TreePaths |-> IF theDrive[p] # Absent THEN theDrive[p] ELSE root[p]]

\* BaseTree.re_key(old_path, new_path) for a file key
re_key(t, old, new) ==
    IF t[old] = Absent THEN t
    ELSE [t EXCEPT ![new] = t[old], ![old] = Absent]

\* ------------------------------------------------------------------------
\* Futures and ActionResults
\* ------------------------------------------------------------------------
\* A call submitted to a pool: fn(path, info, retry) of the tree it is bound
\* to.  st is the worker's progress; cls, success and left (args[-1] of a
\* failed result) describe the ActionResult once st is "done".  rnd tells
\* where the reconciler keeps the future: in self._pending_futures
\* ("pending"), in the as_completed() iterator of the running round
\* ("waiting"), or nowhere ("orphan").  bound is << >> while fn is a method
\* of the live tree, and holds the tree's _root once self._icloud has been
\* replaced.  attempt counts the executions of the operation.
Future(op, path, info, retry, attempt, pool, bound) ==
    [op |-> op, path |-> path, info |-> info, retry |-> retry,
     attempt |-> attempt, pool |-> pool, bound |-> bound,
     st |-> "queued", rnd |-> "pending",
     cls |-> "Nil", success |-> TRUE, left |-> 0]

\* the ActionResult in the reconciler's hands
ActionResult(cls, op, path, info, success, left, attempt, bound) ==
    [cls |-> cls, op |-> op, path |-> path, info |-> info,
     success |-> success, left |-> left, attempt |-> attempt, bound |-> bound]

NoResult == ActionResult("None", "none", NoPath, Absent, TRUE, 0, 0, << >>)

ResultOf(fut) ==
    ActionResult(fut.cls, fut.op, fut.path, fut.info, fut.success, fut.left,
                 fut.attempt, fut.bound)

\* the futures the reconciler is tracking
InFlight(futs) == { i \in 1..Len(futs) : futs[i].rnd \in {"pending", "waiting"} }
Pending(futs) == { i \in 1..Len(futs) : futs[i].rnd = "pending" }

\* s without its i-th element
RemoveAt(s, i) == SubSeq(s, 1, i - 1) \o SubSeq(s, i + 1, Len(s))

_enqueue_always(queue, supp, kind, src, dest) ==
    Append(queue, QueuedEvent(Len(queue) + 1, kind, src, dest, Len(queue) + 1))

\* EventHandler._enqueue: the event is dropped when its src_path is in the
\* suppressed set, when the filter ignores its src_path, or when it has a
\* dest_path the filter ignores; else it is queued with the time of the
\* call
_enqueue(queue, supp, kind, src, dest) ==
    IF src \in supp THEN queue
    ELSE IF ignore(src) THEN queue
    ELSE IF dest # NoPath /\ ignore(dest) THEN queue
    ELSE Append(queue, QueuedEvent(Len(queue) + 1, kind, src, dest, Len(queue) + 1))

\* ------------------------------------------------------------------------
\* Event handlers.  s is the part of the state a handler works on:
\* [disk, local, futures, suppressed]; live is self._icloud._root.
\* ------------------------------------------------------------------------
\* LocalTree.add(path): the missing ancestors of path other than the root
\* are inserted as folders, then path is inserted as the file or folder
\* the sync directory holds, or removed when it holds neither
add(root, theDisk, path) ==
    [k \in DOMAIN root |->
        IF k = path THEN theDisk[path]
        ELSE IF /\ k # ROOT_FOLDER_NAME
                /\ is_relative_to(path, k)
                /\ root[k] = Absent
        THEN Folder
        ELSE root[k]]

_handle_folder_created(s, path, live) ==
    LET s1 == [s EXCEPT !.local = add(s.local, s.disk, path)]
    IN IF s.disk[path] = Absent THEN s1
       ELSE IF live[parent(path)] = Absent \/ live[path] = Absent
       THEN [s1 EXCEPT !.futures = Append(@,
                Future("create_icloud_folders", path, Absent, MAX_RETRIES, 1,
                       "limited", << >>))]
       ELSE s1

_handle_file_modified_any_size(s, path, live) ==
    LET lfi == s.disk[path]
        s1 == [s EXCEPT !.local = add(s.local, s.disk, path)]
        cfi == live[path]
        outdated == lfi.mtime > cfi.mtime
    IN IF lfi = Absent THEN s1
       ELSE IF cfi # Absent /\ ~outdated THEN s1
       ELSE LET s2 == IF live[parent(path)] = Absent
                      THEN _handle_folder_created(s1, parent(path), live)
                      ELSE s1
            IN IF cfi = Absent \/ outdated
               THEN [s2 EXCEPT !.futures = Append(@,
                        Future("upload", path, lfi, MAX_RETRIES, 1, "limited", << >>))]
               ELSE s2

\* EventHandler._handle_file_modified: the file is added to the local tree;
\* a file the live tree lists is uploaded when it is newer and not empty,
\* one it does not list is uploaded after the mkdir of a missing parent
_handle_file_modified(s, path, live) ==
    LET lfi == s.disk[path]
        s1 == [s EXCEPT !.local = add(s.local, s.disk, path)]
        cfi == live[path]
        outdated == lfi.mtime > cfi.mtime /\ lfi.size > 0
    IN IF lfi = Absent THEN s1
       ELSE IF cfi # Absent /\ ~outdated THEN s1
       ELSE LET s2 == IF live[parent(path)] = Absent
                      THEN _handle_folder_created(s1, parent(path), live)
                      ELSE s1
            IN IF cfi = Absent \/ outdated
               THEN [s2 EXCEPT !.futures = Append(@,
                        Future("upload", path, lfi, MAX_RETRIES, 1, "limited", << >>))]
               ELSE s2

\* reappeared is what event.src_path.exists() returned
_handle_file_deleted_always(s, path, live, reappeared) ==
    IF reappeared THEN s
    ELSE [s EXCEPT !.local[path] = Absent,
                   !.futures = Append(@,
                        Future("delete", path, live[path], MAX_RETRIES, 1,
                               "limited", << >>))]

_handle_file_deleted(s, path, live, reappeared) ==
    IF reappeared THEN s
    ELSE LET s1 == [s EXCEPT !.local[path] = Absent]
         IN IF live[parent(path)] # Absent /\ live[path] # Absent
            THEN [s1 EXCEPT !.futures = Append(@,
                    Future("delete", path, live[path], MAX_RETRIES, 1, "limited", << >>))]
            ELSE s1

\* BaseTree.prune(path): the keys at or under path are popped
prune(t, path) ==
    [k \in DOMAIN t |-> IF is_relative_to(k, path) THEN Absent ELSE t[k]]

\* the handler calls _handle_file_deleted, then prunes the local tree
\* whatever that call did
_handle_folder_deleted(s, path, live, reappeared) ==
    LET s1 == _handle_file_deleted(s, path, live, reappeared)
    IN [s1 EXCEPT !.local = prune(@, path)]

_handle_icloud_folder_modified(s, path) ==
    [s EXCEPT !.futures = Append(@,
        Future("process_folder", path, Absent, MAX_RETRIES, 1, "unlimited", << >>))]

\* _delete_local: the unlink raises a FileDeleted event for a path that was
\* put in the suppressed set just before, so _enqueue drops it
_delete_local(s, path) ==
    IF s.local[path] = Absent THEN s
    ELSE [s EXCEPT !.suppressed = @ \cup {path},
                   !.disk[path] = IF IsFile(s.local[path]) THEN Absent ELSE @,
                   !.local[path] = Absent]

\* the order the loops over a set of keys visit the paths in
PathList == << ROOT_FOLDER_NAME, <<"f">>, <<"g">> >>

RECURSIVE _sync_local_to_icloud(_, _, _, _)
\* keys is self._local.keys() - self._icloud.keys(); n paths are still to visit
_sync_local_to_icloud(s, keys, live, n) ==
    IF n = 0 THEN s
    ELSE LET path == PathList[Len(PathList) - n + 1]
             s1 == IF path \notin keys THEN s
                   ELSE IF ~IsFile(s.local[path])
                   THEN _handle_folder_created(s, path, live)
                   ELSE _handle_file_modified(s, path, live)
         IN _sync_local_to_icloud(s1, keys, live, n - 1)

RECURSIVE _sync_icloud(_, _, _, _)
\* keys is those.keys() - these.keys()
_sync_icloud(s, keys, those, n) ==
    IF n = 0 THEN s
    ELSE LET path == PathList[Len(PathList) - n + 1]
             s1 == IF path \notin keys THEN s
                   ELSE IF ~IsFile(those[path])
                   THEN [s EXCEPT !.suppressed = @ \cup {path}]
                   ELSE [s EXCEPT !.suppressed = @ \cup {path},
                                  !.futures = Append(@,
                            Future("download", path, those[path], MAX_RETRIES, 1,
                                   "unlimited", << >>))]
         IN _sync_icloud(s1, keys, those, n - 1)

RECURSIVE _sync_common(_, _, _, _, _)
\* these is the left tree as it was when the loop started
_sync_common(s, these, those, live, n) ==
    IF n = 0 THEN s
    ELSE LET path == PathList[Len(PathList) - n + 1]
             left_fi == these[path]
             right_fi == those[path]
             s1 == IF ~(IsFile(left_fi) /\ IsFile(right_fi)) THEN s
                   ELSE IF left_fi.mtime > right_fi.mtime
                   THEN _handle_file_modified(s, path, live)
                   ELSE IF left_fi.mtime < right_fi.mtime
                   THEN [s EXCEPT !.suppressed = @ \cup {path},
                                  !.futures = Append(@,
                            Future("download", path, right_fi, MAX_RETRIES, 1,
                                   "unlimited", << >>))]
                   ELSE s
         IN _sync_common(s1, these, those, live, n - 1)

\* no refresh is exercised on its own
RcOff ==
    /\ rc_drive = [root |-> {}, trash |-> {}]
    /\ rc_root = {}
    /\ rc_trash = {}
    /\ rc_fileCount = 0
    /\ rc_trashFileCount = 0
    /\ rc_succeeded = FALSE
    /\ rc_pc = "off"

\* the periodic jobs are not registered
JbOff ==
    /\ jb_disabled = FALSE
    /\ jb_auth = FALSE
    /\ jb_dirty = FALSE
    /\ jb_refresh = "none"
    /\ jb_inflight = FALSE
    /\ jb_probes = 0
    /\ jb_builds = 0
    /\ jb_last = "off"

\* create_icloud_folders is not called on its own
MkOff ==
    /\ mk_root = << >>
    /\ mk_drive = << >>
    /\ mk_path = << >>
    /\ mk_before = << >>
    /\ mk_calls = << >>
    /\ mk_cls = "none"
    /\ mk_pc = "off"

\* the locks are not exercised on their own
LkOff ==
    /\ lk_pc = "off"
    /\ lk_refresh_lock = "free"
    /\ lk_set_lock = "free"
    /\ lk_entered = FALSE
    /\ lk_pending = 0
    /\ lk_events = 0
    /\ lk_collected = 0
    /\ lk_changed = FALSE
    /\ lk_dirty = FALSE
    /\ lk_refresh = "none"
    /\ lk_torn = FALSE
    /\ lk_elapsed = FALSE
    /\ lk_job = << >>
    /\ lk_probes = 0
    /\ lk_builds = 0
    /\ lk_budget = 0
    /\ lk_last = "none"
    /\ lk_counted = TRUE

\* the trash of the drive is empty
TrOff == tr_trash = {}

ExtraOff == MkOff /\ LkOff /\ TrOff

\* no component is exercised on its own
UnitOff ==
    /\ pm_data = << >>
    /\ pm_call = << >>
    /\ pm_snapshot = {}
    /\ pm_before = << >>
    /\ pm_seen = {}
    /\ pm_pc = "off"
    /\ ignore_regexes = builtin_ignore_regexes
    /\ includes_regexes = << >>
    /\ ig_path = << >>
    /\ ig_result = FALSE
    /\ RcOff
    /\ JbOff
    /\ ExtraOff

NoSyncOp == [op |-> "none", src |-> NoPath, dest |-> NoPath, st |-> "idle"]

\* the state EventHandler.__init__ leaves, over a sync directory d and a
\* drive r
Constructed(d, r) ==
    /\ disk = d
    /\ drive = r
    /\ local = EmptyMap
    /\ icloud = ICloudTree(EmptyMap, FALSE, FALSE)
    /\ refresh = << >>
    /\ event_queue = << >>
    /\ refresh_queue = << >>
    /\ event_collector = << >>
    /\ dispatching = << >>
    /\ suppressed = {}
    /\ futures = << >>
    /\ result = NoResult
    /\ sync_op = NoSyncOp
    /\ refresh_lock = "free"
    /\ pc = "start"
    /\ job_pc = "idle"
    /\ timeloop = FALSE
    /\ error_log = << >>
    /\ refresh_log = "none"
    /\ clock = 2
    /\ fault_budget = MaxFaults

\* ------------------------------------------------------------------------
\* The coalescer applied to every bounded batch
\* ------------------------------------------------------------------------
CqInit ==
    /\ cq_name \in {"eventQ", "refreshQ"}
    /\ cq_events = << >>
    /\ cq_coalesced = << >>
    /\ cq_pc = "collect"
    /\ UnitOff
    /\ Constructed(RootOnly, RootOnly)

\* _collect_events_until_empty: events.append(qe) for a dequeued QueuedEvent
CqCollect ==
    /\ cq_pc = "collect"
    /\ Len(cq_events) < MaxEvents
    /\ \E shape \in EventShapes(cq_name), ts \in Timestamps :
          cq_events' = Append(cq_events,
              QueuedEvent(Len(cq_events) + 1, shape[1], shape[2],
                          IF shape[1] \in MoveKinds
                          THEN Append(shape[2], "moved") ELSE NoPath,
                          ts))
    /\ UNCHANGED <<cq_name, cq_coalesced, cq_pc, unit_vars, main_vars>>

\* _dispatch_events: events = self._coalesce_events(event_collector)
CqCoalesce ==
    /\ cq_pc = "collect"
    /\ cq_events # << >>
    /\ cq_coalesced' = _coalesce_events(cq_events)
    /\ cq_pc' = "coalesced"
    /\ UNCHANGED <<cq_name, cq_events, unit_vars, main_vars>>

CqNext == CqCollect \/ CqCoalesce

SpecCoalesce == CqInit /\ [][CqNext]_vars

\* ------------------------------------------------------------------------
\* The two conflation passes applied to every list the per-path selection
\* can hand them: one event per path, in the order the paths were first seen
\* ------------------------------------------------------------------------
\* a folder a, a/b inside it, a/b/c inside that, and an unrelated x
ConflatePaths == { <<"a">>, <<"a", "b">>, <<"a", "b", "c">>, <<"x">> }

\* coalesced.append(final) for the next path of by_path
CfAppend ==
    /\ cq_pc = "perpath"
    /\ \E kind \in WatcherKinds, path \in ConflatePaths :
        /\ \A i \in 1..Len(cq_events) : cq_events[i].src_path # path
        /\ cq_events' = Append(cq_events,
              QueuedEvent(Len(cq_events) + 1, kind, path,
                          IF kind \in MoveKinds
                          THEN Append(path, "moved") ELSE NoPath,
                          Len(cq_events) + 1))
    /\ UNCHANGED <<cq_name, cq_coalesced, cq_pc, unit_vars, main_vars>>

\* the two calls of _conflate_folder_events in _coalesce_events
CfConflate ==
    /\ cq_pc = "perpath"
    /\ cq_events # << >>
    /\ cq_coalesced' = _conflate_folder_events(
                          _conflate_folder_events(cq_events, FolderDeleted),
                          FolderMoved)
    /\ cq_pc' = "conflated"
    /\ UNCHANGED <<cq_name, cq_events, unit_vars, main_vars>>

CfInit ==
    /\ cq_name = "eventQ"
    /\ cq_events = << >>
    /\ cq_coalesced = << >>
    /\ cq_pc = "perpath"
    /\ UnitOff
    /\ Constructed(RootOnly, RootOnly)

CfNext == CfAppend \/ CfConflate

SpecConflate == CfInit /\ [][CfNext]_vars

\* ------------------------------------------------------------------------
\* The reconciler: initial state, the user, the other devices
\* ------------------------------------------------------------------------
\* the trees the run starts from: each file is missing or was written at
\* time 1
InitTrees ==
    { t \in [TreePaths -> {Absent, Folder, File(1, 1)}] :
        /\ t[ROOT_FOLDER_NAME] = Folder
        /\ \A p \in Files : t[p] # Folder }

Init ==
    /\ cq_name = "eventQ"
    /\ cq_events = << >>
    /\ cq_coalesced = << >>
    /\ cq_pc = "off"
    /\ UnitOff
    /\ \E d \in InitTrees, r \in InitTrees : Constructed(d, r)

\* the part of the state the handlers work on
S == [disk |-> disk, local |-> local, futures |-> futures, suppressed |-> suppressed]

Becomes(s) ==
    /\ disk' = s.disk
    /\ local' = s.local
    /\ futures' = s.futures
    /\ suppressed' = s.suppressed

\* the user writes file p; on_created / on_modified enqueue the event
UserWrite(p, size) ==
    /\ clock <= MaxClock
    /\ disk' = [disk EXCEPT ![p] = File(clock, size)]
    /\ clock' = clock + 1
    /\ event_queue' = _enqueue(event_queue, suppressed,
                        IF disk[p] = Absent THEN FileCreated ELSE FileModified,
                        p, NoPath)
    /\ UNCHANGED <<cq_vars, drive, local, icloud, refresh, refresh_queue,
                   event_collector, dispatching, suppressed, futures, result,
                   sync_op, refresh_lock, pc, job_pc, timeloop, error_log, refresh_log, fault_budget>>

\* the user deletes file p; on_deleted enqueues the event
UserDelete(p) ==
    /\ clock <= MaxClock
    /\ IsFile(disk[p])
    /\ disk' = [disk EXCEPT ![p] = Absent]
    /\ clock' = clock + 1
    /\ event_queue' = _enqueue(event_queue, suppressed, FileDeleted, p, NoPath)
    /\ UNCHANGED <<cq_vars, drive, local, icloud, refresh, refresh_queue,
                   event_collector, dispatching, suppressed, futures, result,
                   sync_op, refresh_lock, pc, job_pc, timeloop, error_log, refresh_log, fault_budget>>

\* the user renames file src to dst; on_moved enqueues the event
UserRename(src, dst) ==
    /\ clock <= MaxClock
    /\ src # dst
    /\ IsFile(disk[src])
    /\ disk' = [disk EXCEPT ![dst] = disk[src], ![src] = Absent]
    /\ clock' = clock + 1
    /\ event_queue' = _enqueue(event_queue, suppressed, FileMoved, src, dst)
    /\ UNCHANGED <<cq_vars, drive, local, icloud, refresh, refresh_queue,
                   event_collector, dispatching, suppressed, futures, result,
                   sync_op, refresh_lock, pc, job_pc, timeloop, error_log, refresh_log, fault_budget>>

\* another device writes file p to the drive
RemoteWrite(p) ==
    /\ clock <= MaxClock
    /\ drive' = [drive EXCEPT ![p] = File(clock, 1)]
    /\ clock' = clock + 1
    /\ UNCHANGED <<cq_vars, disk, local, icloud, refresh, event_queue,
                   refresh_queue, event_collector, dispatching, suppressed,
                   futures, result, sync_op, refresh_lock, pc, job_pc, timeloop,
                   error_log, refresh_log, fault_budget>>

\* another device deletes file p from the drive for good
RemoteDelete(p) ==
    /\ clock <= MaxClock
    /\ IsFile(drive[p])
    /\ drive' = [drive EXCEPT ![p] = Absent]
    /\ clock' = clock + 1
    /\ UNCHANGED <<cq_vars, disk, local, icloud, refresh, event_queue,
                   refresh_queue, event_collector, dispatching, suppressed,
                   futures, result, sync_op, refresh_lock, pc, job_pc, timeloop,
                   error_log, refresh_log, fault_budget>>

\* ------------------------------------------------------------------------
\* EventHandler.run: the reconciler thread
\* ------------------------------------------------------------------------
\* the initial sync of run(): _sync_local_to_icloud, _sync_icloud and
\* _sync_common of the local tree against the refreshed tree
InitialSync(s, live) ==
    LET a == _sync_local_to_icloud(s, Keys(s.local) \ Keys(live), live, Len(PathList))
        b == _sync_icloud(a, Keys(live) \ Keys(a.local), live, Len(PathList))
    IN _sync_common(b, b.local, live, live, Len(PathList))

\* the head of run()'s try block: refresh both trees, run the initial sync
\* when the remote refresh succeeded, start the periodic jobs
Start ==
    /\ pc = "start"
    /\ \E t \in ICloudRefresh(icloud, drive) :
        LET cost == IF t.succeeded \/ icloud.used THEN 0 ELSE 1
            s0 == [S EXCEPT !.local = disk]
        IN /\ cost <= fault_budget
           /\ fault_budget' = fault_budget - cost
           /\ icloud' = t
           /\ Becomes(IF t.succeeded THEN InitialSync(s0, t.root) ELSE s0)
    /\ event_collector' = << >>
    /\ timeloop' = TRUE
    /\ pc' = "collect"
    /\ UNCHANGED <<cq_vars, drive, refresh, event_queue, refresh_queue,
                   dispatching, result, sync_op, refresh_lock, job_pc,
                   error_log, refresh_log, clock>>

\* _collect_events_until_empty on the event queue, outside the lock
Collect ==
    /\ pc = "collect"
    /\ event_collector' = event_collector \o event_queue
    /\ event_queue' = << >>
    /\ pc' = "lock"
    /\ UNCHANGED <<cq_vars, disk, drive, local, icloud, refresh, refresh_queue,
                   dispatching, suppressed, futures, result, sync_op,
                   refresh_lock, job_pc, timeloop, error_log, refresh_log, clock, fault_budget>>

\* with self._refresh_lock: and the first lines of _dispatch_events, which
\* coalesce the collected batch
AcquireLock ==
    /\ pc = "lock"
    /\ refresh_lock = "free"
    /\ refresh_lock' = "main"
    /\ dispatching' = IF event_collector = << >> THEN << >>
                      ELSE _coalesce_events(event_collector)
    /\ pc' = "dispatch"
    /\ UNCHANGED <<cq_vars, disk, drive, local, icloud, refresh, event_queue,
                   refresh_queue, event_collector, suppressed, futures, result,
                   sync_op, job_pc, timeloop, error_log, refresh_log, clock,
                   fault_budget>>

\* one turn of the loop of _dispatch_events over a watcher event.  A file
\* move whose source is in the live tree and whose parent does not change
\* makes the reconciler thread call self._icloud.rename itself.
DispatchEvent ==
    /\ pc = "dispatch"
    /\ dispatching # << >>
    /\ sync_op.st = "idle"
    /\ LET e == Head(dispatching)
           live == icloud.root
           s0 == [S EXCEPT !.suppressed = @ \cup {e.src_path, e.dest_path}]
       IN \/ /\ e.kind \in {FileCreated, FileModified}
             /\ Becomes(_handle_file_modified(s0, e.src_path, live))
             /\ UNCHANGED sync_op
          \/ /\ e.kind = FileDeleted
             /\ \E reappeared \in (IF disk[e.src_path] # Absent
                                    THEN BOOLEAN ELSE {FALSE}) :
                    Becomes(_handle_file_deleted(s0, e.src_path, live, reappeared))
             /\ UNCHANGED sync_op
          \/ /\ e.kind = FileMoved
             /\ LET s1 == [s0 EXCEPT !.local = re_key(@, e.src_path, e.dest_path)]
                IN IF live[e.src_path] # Absent
                   THEN /\ Becomes(s1)
                        /\ sync_op' = [op |-> "rename", src |-> e.src_path,
                                       dest |-> e.dest_path, st |-> "running"]
                   ELSE /\ Becomes(_handle_file_modified(s1, e.dest_path, live))
                        /\ UNCHANGED sync_op
    /\ dispatching' = Tail(dispatching)
    /\ UNCHANGED <<cq_vars, drive, icloud, refresh, event_queue, refresh_queue,
                   event_collector, result, refresh_lock, pc, job_pc, timeloop,
                   error_log, refresh_log, clock, fault_budget>>

\* ICloudTree.rename finishes on the reconciler thread
RenameComplete ==
    /\ sync_op.st = "running"
    /\ LET src == sync_op.src
           dest == sync_op.dest
       IN \/ /\ icloud.root[src] = Absent
             /\ result' = ActionResult("Nil", "rename", src, Absent, TRUE, 0, 1, << >>)
             /\ UNCHANGED <<drive, icloud, fault_budget>>
          \/ /\ icloud.root[src] # Absent
             /\ drive[src] # Absent
             /\ drive' = re_key(drive, src, dest)
             /\ icloud' = [icloud EXCEPT !.root = re_key(@, src, dest)]
             /\ result' = ActionResult("Rename", "rename", dest, Absent, TRUE, 0, 1, << >>)
             /\ UNCHANGED fault_budget
          \/ /\ icloud.root[src] # Absent
             /\ drive[src] = Absent \/ fault_budget > 0
             /\ fault_budget' = IF drive[src] = Absent THEN fault_budget ELSE fault_budget - 1
             /\ result' = ActionResult("Rename", "rename", src, Absent, FALSE,
                                       MAX_RETRIES - 1, 1, << >>)
             /\ UNCHANGED <<drive, icloud>>
    /\ sync_op' = [sync_op EXCEPT !.st = "done"]
    /\ UNCHANGED <<cq_vars, disk, local, refresh, event_queue, refresh_queue,
                   event_collector, dispatching, suppressed, futures,
                   refresh_lock, pc, job_pc, timeloop, error_log, refresh_log, clock>>

\* _handle_file_moved after the rename: the value rename returned is not
\* assigned, and a folder-modified event is enqueued for the source path
RenameReturn ==
    /\ sync_op.st = "done"
    /\ result' = NoResult
    /\ refresh_queue' = _enqueue(refresh_queue, suppressed, ICloudFolderModified,
                                 sync_op.src, NoPath)
    /\ sync_op' = NoSyncOp
    /\ UNCHANGED <<cq_vars, disk, drive, local, icloud, refresh, event_queue,
                   event_collector, dispatching, suppressed, futures,
                   refresh_lock, pc, job_pc, timeloop, error_log, refresh_log, clock, fault_budget>>

\* _dispatch_events returns: event_collector.clear()
DispatchDone ==
    /\ pc = "dispatch"
    /\ dispatching = << >>
    /\ sync_op.st = "idle"
    /\ event_collector' = << >>
    /\ pc' = "futures"
    /\ UNCHANGED <<cq_vars, disk, drive, local, icloud, refresh, event_queue,
                   refresh_queue, dispatching, suppressed,
                   futures, result, sync_op, refresh_lock, job_pc, timeloop,
                   error_log, refresh_log, clock, fault_budget>>

\* _process_pending_futures: done, self._pending_futures =
\* as_completed(self._pending_futures), ThreadSafeSet()
FuturesRound ==
    /\ pc = "futures"
    /\ result = NoResult
    /\ Pending(futures) # {}
    /\ InFlight(futures) = Pending(futures)
    /\ futures' = [i \in 1..Len(futures) |->
                     IF futures[i].rnd = "pending"
                     THEN [futures[i] EXCEPT !.rnd = "waiting"] ELSE futures[i]]
    /\ UNCHANGED <<cq_vars, disk, drive, local, icloud, refresh, event_queue,
                   refresh_queue, event_collector, dispatching, suppressed,
                   result, sync_op, refresh_lock, pc, job_pc, timeloop,
                   error_log, refresh_log, clock, fault_budget>>

\* result = future.result() for the next completed future of the round.
\* When the call raised, the exception leaves run()'s inner loop: the locks
\* are released, the futures the iterator still held are no longer tracked,
\* and after the sleep run() starts over.
TakeResult ==
    /\ pc = "futures"
    /\ result = NoResult
    /\ \E i \in 1..Len(futures) :
        /\ futures[i].rnd = "waiting"
        /\ \/ /\ futures[i].st = "done"
              /\ result' = ResultOf(futures[i])
              /\ futures' = RemoveAt(futures, i)
              /\ UNCHANGED <<refresh_lock, pc, dispatching>>
           \/ /\ futures[i].st = "raised"
              /\ LET rest == RemoveAt(futures, i)
                 IN futures' = [j \in 1..Len(rest) |->
                                  IF rest[j].rnd = "waiting"
                                  THEN [rest[j] EXCEPT !.rnd = "orphan"] ELSE rest[j]]
              /\ refresh_lock' = "free"
              /\ dispatching' = << >>
              /\ pc' = "start"
              /\ UNCHANGED result
    /\ UNCHANGED <<cq_vars, disk, drive, local, icloud, refresh, event_queue,
                   refresh_queue, event_collector, suppressed, sync_op, job_pc,
                   timeloop, error_log, refresh_log, clock, fault_budget>>

\* the test `if retry > 0` of _handle_action_result
ShouldRetryAlways(res) == res.left >= 0

ShouldRetry(res) == res.left > 0

\* _handle_action_result(result)
HandleActionResult ==
    /\ pc = "futures"
    /\ result # NoResult
    /\ IF ~result.success
       THEN IF ShouldRetry(result)
            THEN /\ futures' = Append(futures,
                        Future(result.op, result.path, result.info, result.left,
                               result.attempt + 1,
                               IF result.cls = "Download" THEN "unlimited" ELSE "limited",
                               result.bound))
                 /\ UNCHANGED <<error_log, refresh_queue>>
            ELSE /\ error_log' = Append(error_log,
                        [cls |-> result.cls, path |-> result.path,
                         attempt |-> result.attempt])
                 /\ UNCHANGED <<futures, refresh_queue>>
       ELSE /\ refresh_queue' =
                    IF result.cls \in {"Upload", "Rename", "Move"}
                    THEN _enqueue(refresh_queue, suppressed, ICloudFolderModified,
                                  parent(result.path), NoPath)
                    ELSE refresh_queue
            /\ UNCHANGED <<futures, error_log>>
    /\ result' = NoResult
    /\ UNCHANGED <<cq_vars, disk, drive, local, icloud, refresh, event_queue,
                   event_collector, dispatching, suppressed, sync_op,
                   refresh_lock, pc, job_pc, timeloop, refresh_log, clock,
                   fault_budget>>

RECURSIVE DispatchRefreshEvents(_, _)
\* the loop of _dispatch_events over the coalesced refreshQ batch
DispatchRefreshEvents(s, evs) ==
    IF evs = << >> THEN s
    ELSE LET e == Head(evs)
             s0 == [s EXCEPT !.suppressed = @ \cup {e.src_path, e.dest_path}]
         IN DispatchRefreshEvents(_handle_icloud_folder_modified(s0, e.src_path),
                                  Tail(evs))

\* the futures loop is left: clear the suppressed paths, then collect and
\* dispatch the refresh queue
ProcessRefreshQueue ==
    /\ pc = "futures"
    /\ result = NoResult
    /\ InFlight(futures) = {}
    /\ Becomes(DispatchRefreshEvents([S EXCEPT !.suppressed = {}],
                    IF refresh_queue = << >> THEN << >>
                    ELSE _coalesce_events(refresh_queue)))
    /\ refresh_queue' = << >>
    /\ pc' = "apply"
    /\ UNCHANGED <<cq_vars, drive, icloud, refresh, event_queue,
                   event_collector, dispatching, result, sync_op, refresh_lock,
                   job_pc, timeloop, error_log, refresh_log, clock, fault_budget>>

RECURSIVE DeleteLocals(_, _, _)
\* for path in deleted_paths: self._delete_local(path)
DeleteLocals(s, keys, n) ==
    IF n = 0 THEN s
    ELSE LET path == PathList[Len(PathList) - n + 1]
         IN DeleteLocals(IF path \in keys THEN _delete_local(s, path) ELSE s,
                         keys, n - 1)

\* the methods of the tree self._icloud no longer names stay bound to it
Rebind(futs, root) ==
    [i \in 1..Len(futs) |->
        IF futs[i].bound = << >> /\ futs[i].op # "download"
        THEN [futs[i] EXCEPT !.bound = << root >>] ELSE futs[i]]

\* _apply_icloud_refresh, with these the live tree and those the refresh
_apply_icloud_refresh(s, these, those) ==
    LET a == _sync_icloud(s, Keys(those) \ Keys(these), those, Len(PathList))
        b == _sync_common(a, these, those, these, Len(PathList))
    IN DeleteLocals(b, Keys(these) \ Keys(those), Len(PathList))

\* the test `not (self._pending_futures or self._event_queue.qsize())`
CanApplyIgnoringQueue == InFlight(futures) = {}

CanApply == InFlight(futures) = {} /\ event_queue = << >>

\* the end of the locked block of run(): apply or discard self._refresh
ApplyRefresh ==
    /\ pc = "apply"
    /\ IF refresh # << >> /\ CanApply
       THEN LET s1 == _apply_icloud_refresh(S, icloud.root, refresh[1].root)
            IN /\ Becomes([s1 EXCEPT !.futures = Rebind(@, icloud.root)])
               /\ icloud' = refresh[1]
               /\ refresh_log' = "applying refresh"
       ELSE /\ UNCHANGED <<disk, local, futures, suppressed, icloud>>
            /\ refresh_log' = IF refresh # << >> THEN "refresh discarded"
                              ELSE refresh_log
    /\ refresh' = << >>
    /\ refresh_lock' = "free"
    /\ pc' = "collect"
    /\ UNCHANGED <<cq_vars, drive, event_queue, refresh_queue, event_collector,
                   dispatching, result, sync_op, job_pc, timeloop, error_log,
                   clock, fault_budget>>

\* ------------------------------------------------------------------------
\* The pools: _limited_threadpool (one worker) and _unlimited_threadpool
\* ------------------------------------------------------------------------
\* the _root of the tree the future's method is bound to
TreeOf(fut) == IF fut.bound = << >> THEN icloud.root ELSE fut.bound[1]

\* the future once its call returned an ActionResult
Done(fut, cls, success, left, root) ==
    [fut EXCEPT !.st = "done", !.cls = cls, !.success = success, !.left = left,
                !.bound = IF fut.bound = << >> THEN << >> ELSE << root >>]

\* the call of future i is over and left `root` in its tree; a future the
\* reconciler no longer tracks is forgotten
Settle(i, fut, root) ==
    /\ futures' = IF futures[i].rnd = "orphan" THEN RemoveAt(futures, i)
                  ELSE [futures EXCEPT ![i] = fut]
    /\ icloud' = IF futures[i].bound = << >>
                 THEN [icloud EXCEPT !.root = root] ELSE icloud

\* the single worker of the limited pool takes the oldest queued call
SerialStart ==
    /\ \E i \in 1..Len(futures) :
        /\ futures[i].pool = "limited"
        /\ futures[i].st = "queued"
        /\ \A j \in 1..Len(futures) :
              futures[j].pool = "limited" =>
                /\ futures[j].st # "running"
                /\ j < i => futures[j].st # "queued"
        /\ futures' = [futures EXCEPT ![i].st = "running"]
    /\ UNCHANGED <<cq_vars, disk, drive, local, icloud, refresh, event_queue,
                   refresh_queue, event_collector, dispatching, suppressed,
                   result, sync_op, refresh_lock, pc, job_pc, timeloop,
                   error_log, refresh_log, clock, fault_budget>>

\* ICloudTree.upload returns: the delete of the old copy (its result is
\* not looked at), the lookup of the parent node, the open of the local
\* file and the upload itself
UploadFinish ==
    /\ \E i \in 1..Len(futures) :
        LET fut == futures[i]
            root == TreeOf(fut)
            path == fut.path
            listed == root[parent(path)] # Absent /\ root[path] # Absent
        IN /\ fut.op = "upload"
           /\ fut.st = "running"
           /\ \E deleted \in (IF listed THEN BOOLEAN ELSE {FALSE}),
                 uploaded \in BOOLEAN :
                LET root1 == IF deleted THEN [root EXCEPT ![path] = Absent] ELSE root
                    drive1 == IF deleted THEN [drive EXCEPT ![path] = Absent] ELSE drive
                    can_upload == root[parent(path)] # Absent /\ disk[path] # Absent
                    cost == (IF listed /\ ~deleted /\ drive[path] # Absent THEN 1 ELSE 0)
                            + (IF can_upload /\ ~uploaded THEN 1 ELSE 0)
                IN /\ uploaded => can_upload
                   /\ cost <= fault_budget
                   /\ fault_budget' = fault_budget - cost
                   /\ drive' = IF uploaded
                                THEN [drive1 EXCEPT ![path] =
                                        File(fut.info.mtime, disk[path].size)]
                                ELSE drive1
                   /\ Settle(i,
                        IF uploaded THEN Done(fut, "Upload", TRUE, 0, root1)
                        ELSE IF root[parent(path)] # Absent /\ disk[path] = Absent
                        THEN Done(fut, "Upload", FALSE, 0, root1)
                        ELSE Done(fut, "Upload", FALSE, fut.retry - 1, root1),
                        root1)
    /\ UNCHANGED <<cq_vars, disk, local, refresh, event_queue, refresh_queue,
                   event_collector, dispatching, suppressed, result, sync_op,
                   refresh_lock, pc, job_pc, timeloop, error_log, refresh_log, clock>>

\* ICloudTree.delete returns: Nil when the tree does not list the path, a
\* success, a ValueError (no retry left) or another exception
DeleteFinish ==
    /\ \E i \in 1..Len(futures) :
        LET fut == futures[i]
            root == TreeOf(fut)
            path == fut.path
            listed == root[parent(path)] # Absent /\ root[path] # Absent
        IN /\ fut.op = "delete"
           /\ fut.st = "running"
           /\ \/ /\ ~listed
                 /\ Settle(i, Done(fut, "Nil", TRUE, 0, root), root)
                 /\ UNCHANGED <<drive, fault_budget>>
              \/ /\ listed
                 /\ drive' = [drive EXCEPT ![path] = Absent]
                 /\ Settle(i, Done(fut, "Delete", TRUE, 0, [root EXCEPT ![path] = Absent]),
                           [root EXCEPT ![path] = Absent])
                 /\ UNCHANGED fault_budget
              \/ /\ listed
                 /\ fault_budget > 0
                 /\ fault_budget' = fault_budget - 1
                 /\ \E left \in {0, fut.retry - 1} :
                        Settle(i, Done(fut, "Delete", FALSE, left, root), root)
                 /\ UNCHANGED drive
    /\ UNCHANGED <<cq_vars, disk, local, refresh, event_queue, refresh_queue,
                   event_collector, dispatching, suppressed, result, sync_op,
                   refresh_lock, pc, job_pc, timeloop, error_log, refresh_log, clock>>

\* ICloudTree.create_icloud_folders(".") returns: there is no folder to
\* make, and the lookup of the root raises KeyError in a tree without it
MkDirFinish ==
    /\ \E i \in 1..Len(futures) :
        LET fut == futures[i]
            root == TreeOf(fut)
        IN /\ fut.op = "create_icloud_folders"
           /\ fut.st = "running"
           /\ Settle(i,
                IF root[ROOT_FOLDER_NAME] = Absent
                THEN Done(fut, "MkDir", FALSE, fut.retry - 1, root)
                ELSE Done(fut, "Nil", TRUE, 0, root),
                root)
    /\ UNCHANGED <<cq_vars, disk, drive, local, refresh, event_queue,
                   refresh_queue, event_collector, dispatching, suppressed,
                   result, sync_op, refresh_lock, pc, job_pc, timeloop,
                   error_log, refresh_log, clock, fault_budget>>

\* ICloudTree.download runs in the unlimited pool.  The local file is
\* opened for writing before the content is fetched, so a failed fetch
\* leaves it empty; the watcher reports the write through _enqueue.
DownloadRun ==
    /\ \E i \in 1..Len(futures) :
        LET fut == futures[i]
            path == fut.path
            kind == IF disk[path] = Absent THEN FileCreated ELSE FileModified
        IN /\ fut.op = "download"
           /\ fut.st = "queued"
           /\ \/ /\ drive[path] # Absent
                 /\ disk' = [disk EXCEPT ![path] = File(fut.info.mtime, drive[path].size)]
                 /\ local' = [local EXCEPT ![path] = File(fut.info.mtime, drive[path].size)]
                 /\ event_queue' = _enqueue(event_queue, suppressed, kind, path, NoPath)
                 /\ Settle(i, Done(fut, "Download", TRUE, 0, icloud.root), icloud.root)
                 /\ UNCHANGED fault_budget
              \/ /\ drive[path] = Absent \/ fault_budget > 0
                 /\ fault_budget' = IF drive[path] = Absent THEN fault_budget ELSE fault_budget - 1
                 /\ disk' = [disk EXCEPT ![path] = File(clock, 0)]
                 /\ event_queue' = _enqueue(event_queue, suppressed, kind, path, NoPath)
                 /\ Settle(i, Done(fut, "Download", FALSE, fut.retry - 1, icloud.root), icloud.root)
                 /\ UNCHANGED local
    /\ UNCHANGED <<cq_vars, drive, refresh, refresh_queue, event_collector,
                   dispatching, suppressed, result, sync_op, refresh_lock, pc,
                   job_pc, timeloop, error_log, refresh_log, clock>>

\* ICloudTree.process_folder runs in the unlimited pool; get_children is
\* called outside any try block, so its exception is the future's
ProcessFolderRun ==
    /\ \E i \in 1..Len(futures) :
        LET fut == futures[i]
            root == TreeOf(fut)
        IN /\ fut.op = "process_folder"
           /\ fut.st = "queued"
           /\ \/ /\ root[fut.path] = Absent
                 /\ Settle(i, Done(fut, "Nil", TRUE, 0, root), root)
                 /\ UNCHANGED fault_budget
              \/ /\ root[fut.path] # Absent
                 /\ Settle(i, Done(fut, "Refresh", TRUE, 0, process_folder(root, drive)),
                           process_folder(root, drive))
                 /\ UNCHANGED fault_budget
              \/ /\ root[fut.path] # Absent
                 /\ fault_budget > 0
                 /\ fault_budget' = fault_budget - 1
                 /\ Settle(i, [fut EXCEPT !.st = "raised"], root)
    /\ UNCHANGED <<cq_vars, disk, drive, local, refresh, event_queue,
                   refresh_queue, event_collector, dispatching, suppressed,
                   result, sync_op, refresh_lock, pc, job_pc, timeloop,
                   error_log, refresh_log, clock>>

\* ------------------------------------------------------------------------
\* EventHandler._refresh_icloud: the periodic refresh job
\* ------------------------------------------------------------------------
\* the wait loop is left: no pending future and no queued event were seen
JobQuiesced ==
    /\ timeloop
    /\ job_pc = "idle"
    /\ Pending(futures) = {}
    /\ event_queue = << >>
    /\ job_pc' = "acquire"
    /\ UNCHANGED <<cq_vars, disk, drive, local, icloud, refresh, event_queue,
                   refresh_queue, event_collector, dispatching, suppressed,
                   futures, result, sync_op, refresh_lock, pc, timeloop,
                   error_log, refresh_log, clock, fault_budget>>

\* with self._refresh_lock:
JobAcquire ==
    /\ job_pc = "acquire"
    /\ refresh_lock = "free"
    /\ refresh_lock' = "job"
    /\ job_pc' = "build"
    /\ UNCHANGED <<cq_vars, disk, drive, local, icloud, refresh, event_queue,
                   refresh_queue, event_collector, dispatching, suppressed,
                   futures, result, sync_op, pc, timeloop, error_log, refresh_log, clock,
                   fault_budget>>

\* the test `if refresh.refresh()` that guards self._refresh = refresh
PublishesAlways(tree) == TRUE

Publishes(tree) == tree.succeeded

\* a new ICloudTree is refreshed under the lock and published
JobBuild ==
    /\ job_pc = "build"
    /\ \E t \in ICloudRefresh(ICloudTree(EmptyMap, FALSE, FALSE), drive) :
        /\ t.succeeded \/ fault_budget > 0
        /\ fault_budget' = IF t.succeeded THEN fault_budget ELSE fault_budget - 1
        /\ refresh' = IF Publishes(t) THEN << t >> ELSE refresh
        /\ refresh_log' = IF t.succeeded THEN "is consistent" ELSE "is inconsistent"
    /\ refresh_lock' = "free"
    /\ job_pc' = "idle"
    /\ UNCHANGED <<cq_vars, disk, drive, local, icloud, event_queue,
                   refresh_queue, event_collector, dispatching, suppressed,
                   futures, result, sync_op, pc, timeloop, error_log, clock>>

\* ------------------------------------------------------------------------
\* The reconciler with its pools, the refresh job, the user and the drive
\* ------------------------------------------------------------------------
Next ==
    \/ \E p \in Files, size \in {0, 1} : UserWrite(p, size)
    \/ \E p \in Files : UserDelete(p)
    \/ \E src \in Files, dst \in Files : UserRename(src, dst)
    \/ \E p \in Files : RemoteWrite(p)
    \/ \E p \in Files : RemoteDelete(p)
    \/ Start
    \/ Collect
    \/ AcquireLock
    \/ DispatchEvent
    \/ RenameComplete
    \/ RenameReturn
    \/ DispatchDone
    \/ FuturesRound
    \/ TakeResult
    \/ HandleActionResult
    \/ ProcessRefreshQueue
    \/ ApplyRefresh
    \/ SerialStart
    \/ UploadFinish
    \/ DeleteFinish
    \/ MkDirFinish
    \/ DownloadRun
    \/ ProcessFolderRun
    \/ JobQuiesced
    \/ JobAcquire
    \/ JobBuild

Spec == Init /\ [][Next]_vars

\* ------------------------------------------------------------------------
\* The futures loop on its own: run() enters `while self._pending_futures`
\* with a batch of submitted calls, and the drive may fail every call
\* ------------------------------------------------------------------------
\* a drive holding both files, and a live tree in step with it
SyncedDrive == [p \in TreePaths |-> IF p = ROOT_FOLDER_NAME THEN Folder ELSE File(1, 1)]

\* what happened to a file since the trees were in step: the user modified
\* it or deleted it (the event was dispatched in this round), the file is
\* new on the drive (the last refresh application submitted its download),
\* or nothing
Situations == {"modified", "deleted", "remote", "unchanged"}

RetryDisk(sit) ==
    [p \in TreePaths |->
        IF p = ROOT_FOLDER_NAME THEN Folder
        ELSE IF sit[p] = "modified" THEN File(2, 1)
        ELSE IF sit[p] \in {"deleted", "remote"} THEN Absent
        ELSE File(1, 1)]

RetryLocal(sit) ==
    [p \in TreePaths |->
        IF p = ROOT_FOLDER_NAME THEN Folder
        ELSE IF sit[p] = "remote" THEN Absent
        ELSE File(1, 1)]

RECURSIVE RetryDispatch(_, _, _, _)
\* _dispatch_events over the events of the modified and deleted files
RetryDispatch(s, sit, live, n) ==
    IF n = 0 THEN s
    ELSE LET path == PathList[Len(PathList) - n + 1]
             s0 == [s EXCEPT !.suppressed = @ \cup {path, NoPath}]
             s1 == IF path \notin Files THEN s
                   ELSE IF sit[path] = "modified"
                   THEN _handle_file_modified(s0, path, live)
                   ELSE IF sit[path] = "deleted"
                   THEN _handle_file_deleted(s0, path, live, FALSE)
                   ELSE s
         IN RetryDispatch(s1, sit, live, n - 1)

\* the batch: a folder rescan left by the last round, the downloads of the
\* last refresh application, then the calls of this round's handlers.  The
\* live tree is in step with the drive, or empty after an initial refresh
\* that could not authenticate.
RetryInit ==
    /\ cq_name = "eventQ"
    /\ cq_events = << >>
    /\ cq_coalesced = << >>
    /\ cq_pc = "off"
    /\ UnitOff
    /\ \E live \in {SyncedDrive, EmptyMap}, sit \in [Files -> Situations],
          rescan \in BOOLEAN :
        /\ live = EmptyMap => (~rescan /\ \A p \in Files : sit[p] # "remote")
        /\ LET s0 == [disk |-> RetryDisk(sit), local |-> RetryLocal(sit),
                      futures |-> << >>, suppressed |-> {}]
               s1 == IF rescan
                     THEN _handle_icloud_folder_modified(
                            [s0 EXCEPT !.suppressed = {ROOT_FOLDER_NAME, NoPath}],
                            ROOT_FOLDER_NAME)
                     ELSE s0
               s2 == _sync_icloud(s1, { p \in Files : sit[p] = "remote" }, live,
                                  Len(PathList))
               s3 == RetryDispatch(s2, sit, live, Len(PathList))
           IN /\ disk = s3.disk
              /\ local = s3.local
              /\ futures = s3.futures
              /\ suppressed = s3.suppressed
              /\ icloud = ICloudTree(live, live # EmptyMap, TRUE)
    /\ drive = SyncedDrive
    /\ refresh = << >>
    /\ event_queue = << >>
    /\ refresh_queue = << >>
    /\ event_collector = << >>
    /\ dispatching = << >>
    /\ result = NoResult
    /\ sync_op = NoSyncOp
    /\ refresh_lock = "main"
    /\ pc = "futures"
    /\ job_pc = "idle"
    /\ timeloop = TRUE
    /\ error_log = << >>
    /\ refresh_log = "none"
    /\ clock = MaxClock + 1
    /\ fault_budget = 2 * MAX_RETRIES * Cardinality(Files)

\* the steps of the reconciler thread, and those of the pool workers
ReconcilerStep ==
    \/ Start
    \/ Collect
    \/ AcquireLock
    \/ DispatchDone
    \/ FuturesRound
    \/ TakeResult
    \/ HandleActionResult
    \/ ProcessRefreshQueue
    \/ ApplyRefresh

WorkerStep ==
    \/ SerialStart
    \/ UploadFinish
    \/ DeleteFinish
    \/ MkDirFinish
    \/ DownloadRun
    \/ ProcessFolderRun

RetryNext == ReconcilerStep \/ WorkerStep

\* a thread that can take a step takes one: the reconciler thread and the
\* pool workers are scheduled by the operating system
SpecRetry ==
    /\ RetryInit
    /\ [][RetryNext]_vars
    /\ WF_vars(ReconcilerStep)
    /\ WF_vars(WorkerStep)

\* ------------------------------------------------------------------------
\* One debounce window: the user changes files while the reconciler
\* collects, then the batch is dispatched and its futures are processed.
\* No call on the drive fails and no other device writes.
\* ------------------------------------------------------------------------
\* what the user does to a file in the window
BurstOps == {"write", "delete", "rename"} \X Files

\* the file a rename of p moves it to
Other(p) == CHOOSE q \in Files : q # p

\* the sync directory, the event queue and the clock after the user did o;
\* ok is FALSE when the file to delete or rename is not there
UserOp(st, o) ==
    LET p == o[2]
    IN IF o[1] = "write"
       THEN [st EXCEPT !.disk[p] = File(st.clock, 1),
                       !.clock = @ + 1,
                       !.queue = _enqueue(@, {},
                                    IF st.disk[p] = Absent THEN FileCreated
                                    ELSE FileModified, p, NoPath)]
       ELSE IF ~IsFile(st.disk[p]) THEN [st EXCEPT !.ok = FALSE]
       ELSE IF o[1] = "delete"
       THEN [st EXCEPT !.disk[p] = Absent,
                       !.clock = @ + 1,
                       !.queue = _enqueue(@, {}, FileDeleted, p, NoPath)]
       ELSE [st EXCEPT !.disk[Other(p)] = st.disk[p],
                       !.disk[p] = Absent,
                       !.clock = @ + 1,
                       !.queue = _enqueue(@, {}, FileMoved, p, Other(p))]

RECURSIVE Replay(_, _, _)
\* the user does ops[1], ops[2], ... in turn
Replay(st, ops, n) ==
    IF n > Len(ops) \/ ~st.ok THEN st
    ELSE Replay(UserOp(st, ops[n]), ops, n + 1)

\* run() has collected the batch and is about to take the refresh lock.
\* Before the window the local tree matched the sync directory; the live
\* tree lists any of the files, or is the empty tree of an initial refresh
\* that could not authenticate.
DispatchInit ==
    /\ cq_name = "eventQ"
    /\ cq_events = << >>
    /\ cq_coalesced = << >>
    /\ cq_pc = "off"
    /\ UnitOff
    /\ \E before \in InitTrees, live \in InitTrees \cup {EmptyMap},
          n \in 1..MaxEvents :
        \E ops \in [1..n -> BurstOps] :
            LET st == Replay([disk |-> before, queue |-> << >>, clock |-> 2,
                              ok |-> TRUE], ops, 1)
            IN /\ st.ok
               /\ disk = st.disk
               /\ clock = st.clock
               /\ event_collector = st.queue
               /\ local = before
               /\ drive = (IF live = EmptyMap THEN RootOnly ELSE live)
               /\ icloud = ICloudTree(live, live # EmptyMap, TRUE)
    /\ event_queue = << >>
    /\ refresh = << >>
    /\ refresh_queue = << >>
    /\ dispatching = << >>
    /\ suppressed = {}
    /\ futures = << >>
    /\ result = NoResult
    /\ sync_op = NoSyncOp
    /\ refresh_lock = "free"
    /\ pc = "lock"
    /\ job_pc = "idle"
    /\ timeloop = TRUE
    /\ error_log = << >>
    /\ refresh_log = "none"
    /\ fault_budget = 0

DispatchNext ==
    \/ Collect
    \/ AcquireLock
    \/ DispatchEvent
    \/ RenameComplete
    \/ RenameReturn
    \/ DispatchDone
    \/ FuturesRound
    \/ TakeResult
    \/ HandleActionResult
    \/ ProcessRefreshQueue
    \/ ApplyRefresh
    \/ SerialStart
    \/ UploadFinish
    \/ DeleteFinish
    \/ MkDirFinish
    \/ ProcessFolderRun

SpecDispatch == DispatchInit /\ [][DispatchNext]_vars

\* ------------------------------------------------------------------------
\* A folder with children moved to another parent.  The sync directory is
\* p/q/{c,d} and r; it starts in sync with the drive; the user may write or
\* delete children of p/q and then moves p/q to r/q, all within the window
\* the reconciler collects next.
\* ------------------------------------------------------------------------
MovedFolder == <<"p", "q">>
MovedTo == <<"r", "q">>
ChildNames == <<"c", "d">>
Children(folder) == { Append(folder, ChildNames[i]) : i \in 1..Len(ChildNames) }
MovePaths ==
    {ROOT_FOLDER_NAME, <<"p">>, <<"r">>, MovedFolder, MovedTo}
        \cup Children(MovedFolder) \cup Children(MovedTo)

\* k.replace(str(old_path), str(new_path)) for a key under old_path, the
\* names of these paths being one character each
Rebase(k, old, new) ==
    LET chars(p) == [i \in 1..Len(p) |-> << p[i] >>]
        key == parts(replace(str(chars(k)), str(chars(old)), str(chars(new))))
    IN [i \in 1..Len(key) |-> key[i][1]]

\* BaseTree.re_key(old_path, new_path): the key and every key under it
re_key_children(t, old, new) ==
    LET from(k) == { j \in DOMAIN t : /\ t[j] # Absent
                                      /\ is_relative_to(j, old)
                                      /\ Rebase(j, old, new) = k }
    IN [k \in DOMAIN t |->
            IF from(k) # {} THEN t[CHOOSE j \in from(k) : TRUE]
            ELSE IF is_relative_to(k, old) THEN Absent
            ELSE t[k]]

\* the trees the run starts from: p, p/q and r exist, each child of p/q is
\* missing or was written at time 1
MvTrees ==
    { t \in [MovePaths -> {Absent, Folder, File(1, 1)}] :
        /\ \A k \in {ROOT_FOLDER_NAME, <<"p">>, <<"r">>, MovedFolder} : t[k] = Folder
        /\ \A k \in Children(MovedFolder) : t[k] # Folder
        /\ \A k \in {MovedTo} \cup Children(MovedTo) : t[k] = Absent }

MvInit ==
    /\ cq_name = "eventQ"
    /\ cq_events = << >>
    /\ cq_coalesced = << >>
    /\ cq_pc = "off"
    /\ UnitOff
    /\ \E t \in MvTrees :
        /\ disk = t
        /\ local = t
        /\ drive = t
        /\ icloud = ICloudTree(t, TRUE, TRUE)
    /\ event_queue = << >>
    /\ event_collector = << >>
    /\ refresh = << >>
    /\ refresh_queue = << >>
    /\ dispatching = << >>
    /\ suppressed = {}
    /\ futures = << >>
    /\ result = NoResult
    /\ sync_op = NoSyncOp
    /\ refresh_lock = "free"
    /\ pc = "collect"
    /\ job_pc = "idle"
    /\ timeloop = TRUE
    /\ error_log = << >>
    /\ refresh_log = "none"
    /\ clock = 2
    /\ fault_budget = MaxFaults

\* the user writes child k of p/q before the move
MvUserWrite(k) ==
    /\ disk[MovedFolder] # Absent
    /\ Len(event_queue) < MaxEvents - 1
    /\ disk' = [disk EXCEPT ![k] = File(clock, 1)]
    /\ clock' = clock + 1
    /\ event_queue' = _enqueue(event_queue, suppressed,
                        IF disk[k] = Absent THEN FileCreated ELSE FileModified,
                        k, NoPath)
    /\ UNCHANGED <<cq_vars, drive, local, icloud, refresh, refresh_queue,
                   event_collector, dispatching, suppressed, futures, result,
                   sync_op, refresh_lock, pc, job_pc, timeloop, error_log,
                   refresh_log, fault_budget>>

\* the user deletes child k of p/q before the move
MvUserDelete(k) ==
    /\ disk[MovedFolder] # Absent
    /\ Len(event_queue) < MaxEvents - 1
    /\ IsFile(disk[k])
    /\ disk' = [disk EXCEPT ![k] = Absent]
    /\ clock' = clock + 1
    /\ event_queue' = _enqueue(event_queue, suppressed, FileDeleted, k, NoPath)
    /\ UNCHANGED <<cq_vars, drive, local, icloud, refresh, refresh_queue,
                   event_collector, dispatching, suppressed, futures, result,
                   sync_op, refresh_lock, pc, job_pc, timeloop, error_log,
                   refresh_log, fault_budget>>

RECURSIVE SubMoved(_, _, _, _)
\* on_moved for each child the moved folder holds: the watcher follows the
\* folder's event with one file-moved event per child
SubMoved(queue, supp, tree, n) ==
    IF n = 0 THEN queue
    ELSE LET k == Append(MovedFolder, ChildNames[Len(ChildNames) - n + 1])
             q1 == IF tree[k] = Absent THEN queue
                   ELSE _enqueue(queue, supp, FileMoved, k,
                                 Rebase(k, MovedFolder, MovedTo))
         IN SubMoved(q1, supp, tree, n - 1)

\* the user moves p/q, which holds a child, to r/q; on_moved enqueues the
\* folder's event and the children's
MvUserMove ==
    /\ disk[MovedFolder] # Absent
    /\ \E k \in Children(MovedFolder) : disk[k] # Absent
    /\ disk' = re_key_children(disk, MovedFolder, MovedTo)
    /\ event_queue' = SubMoved(_enqueue(event_queue, suppressed, FolderMoved,
                                        MovedFolder, MovedTo),
                               suppressed, disk, Len(ChildNames))
    /\ UNCHANGED <<cq_vars, drive, local, icloud, refresh, refresh_queue,
                   event_collector, dispatching, suppressed, futures, result,
                   sync_op, refresh_lock, pc, job_pc, timeloop, error_log,
                   refresh_log, clock, fault_budget>>

\* the debounce window that holds the move and what preceded it
MvCollect ==
    /\ disk[MovedTo] # Absent
    /\ Collect

\* _handle_file_moved (and _handle_folder_moved, which calls it): the
\* handler's effect on s, and the remote call it makes itself
_handle_file_moved(s, e, live) ==
    LET s1 == [s EXCEPT !.local = re_key_children(@, e.src_path, e.dest_path)]
        is_directory == e.kind = FolderMoved
    IN IF live[e.dest_path] # Absent /\ is_directory
       THEN [s |-> s1, call |-> "none"]
       ELSE IF parent(e.src_path) = parent(e.dest_path)
       THEN IF live[e.src_path] # Absent
            THEN [s |-> s1, call |-> "rename"]
            ELSE [s |-> _handle_file_modified(s1, e.dest_path, live), call |-> "none"]
       ELSE [s |-> s1, call |-> "move"]

\* one turn of the loop of _dispatch_events, over the nested tree
MvDispatchEvent ==
    /\ pc = "dispatch"
    /\ dispatching # << >>
    /\ sync_op.st = "idle"
    /\ LET e == Head(dispatching)
           live == icloud.root
           s0 == [S EXCEPT !.suppressed = @ \cup {e.src_path, e.dest_path}]
       IN \/ /\ e.kind \in {FileCreated, FileModified}
             /\ Becomes(_handle_file_modified(s0, e.src_path, live))
             /\ UNCHANGED sync_op
          \/ /\ e.kind = FileDeleted
             /\ \E reappeared \in (IF disk[e.src_path] # Absent
                                    THEN BOOLEAN ELSE {FALSE}) :
                    Becomes(_handle_file_deleted(s0, e.src_path, live, reappeared))
             /\ UNCHANGED sync_op
          \/ /\ e.kind \in {FileMoved, FolderMoved}
             /\ LET r == _handle_file_moved(s0, e, live)
                IN /\ Becomes(r.s)
                   /\ sync_op' = IF r.call = "none" THEN sync_op
                                 ELSE [op |-> r.call, src |-> e.src_path,
                                       dest |-> e.dest_path, st |-> "running"]
    /\ dispatching' = Tail(dispatching)
    /\ UNCHANGED <<cq_vars, drive, icloud, refresh, event_queue, refresh_queue,
                   event_collector, result, refresh_lock, pc, job_pc, timeloop,
                   error_log, refresh_log, clock, fault_budget>>

\* ICloudTree.move finishes on the reconciler thread: the drive moves the
\* node with what it holds, the tree moves the node's own key
MoveComplete ==
    /\ sync_op.st = "running"
    /\ sync_op.op = "move"
    /\ LET src == sync_op.src
           dest == sync_op.dest
           cfi == icloud.root[src]
           dfi == icloud.root[parent(dest)]
       IN \/ /\ cfi = Absent \/ dfi = Absent
             /\ result' = ActionResult("Nil", "move", src, Absent, TRUE, 0, 1, << >>)
             /\ UNCHANGED <<drive, icloud, fault_budget>>
          \/ /\ cfi # Absent /\ dfi # Absent
             /\ drive[src] # Absent /\ drive[parent(dest)] # Absent
             /\ drive' = re_key_children(drive, src, dest)
             /\ icloud' = [icloud EXCEPT !.root = [@ EXCEPT ![src] = Absent,
                                                            ![dest] = cfi]]
             /\ result' = ActionResult("Move", "move", src, Absent, TRUE, 0, 1, << >>)
             /\ UNCHANGED fault_budget
          \/ /\ cfi # Absent /\ dfi # Absent
             /\ \/ drive[src] = Absent
                \/ drive[parent(dest)] = Absent
                \/ fault_budget > 0
             /\ fault_budget' = IF drive[src] = Absent \/ drive[parent(dest)] = Absent
                                THEN fault_budget ELSE fault_budget - 1
             /\ result' = ActionResult("Move", "move", src, Absent, FALSE,
                                       MAX_RETRIES - 1, 1, << >>)
             /\ UNCHANGED <<drive, icloud>>
    /\ sync_op' = [sync_op EXCEPT !.st = "done"]
    /\ UNCHANGED <<cq_vars, disk, local, refresh, event_queue, refresh_queue,
                   event_collector, dispatching, suppressed, futures,
                   refresh_lock, pc, job_pc, timeloop, error_log, refresh_log, clock>>

\* _handle_file_moved after the move: the value move returned is not
\* assigned, and a folder-modified event is enqueued for the source and
\* for the destination path
MoveReturn ==
    /\ sync_op.st = "done"
    /\ sync_op.op = "move"
    /\ result' = NoResult
    /\ refresh_queue' =
            _enqueue(_enqueue(refresh_queue, suppressed, ICloudFolderModified,
                              sync_op.src, NoPath),
                     suppressed, ICloudFolderModified, sync_op.dest, NoPath)
    /\ sync_op' = NoSyncOp
    /\ UNCHANGED <<cq_vars, disk, drive, local, icloud, refresh, event_queue,
                   event_collector, dispatching, suppressed, futures,
                   refresh_lock, pc, job_pc, timeloop, error_log, refresh_log,
                   clock, fault_budget>>

MvNext ==
    \/ \E k \in Children(MovedFolder) : MvUserWrite(k)
    \/ \E k \in Children(MovedFolder) : MvUserDelete(k)
    \/ MvUserMove
    \/ MvCollect
    \/ AcquireLock
    \/ MvDispatchEvent
    \/ MoveComplete
    \/ MoveReturn
    \/ DispatchDone

SpecMove == MvInit /\ [][MvNext]_vars

\* ------------------------------------------------------------------------
\* A document renamed by another device.  The flat folder starts in sync
\* with the drive, whose records carry the document id; other devices
\* rename and delete documents, the refresh job publishes trees and the
\* reconciler applies them.  The user is idle.
\* ------------------------------------------------------------------------
\* node.data['docwsid'] of the documents of the drive, and the order the
\* loop of _apply_renames visits them in
DocIds == << "A", "B" >>
IdOf(k) == IF k = ROOT_FOLDER_NAME THEN "root" ELSE IF k = <<"f">> THEN "A" ELSE "B"

\* an ICloudFileInfo / ICloudFolderInfo: the FileInfo and the node's id
Doc(info, id) ==
    [type |-> info.type, mtime |-> info.mtime, size |-> info.size, docwsid |-> id]

\* the drive that holds tree t
WithIds(t) ==
    [k \in TreePaths |-> IF t[k] = Absent THEN Absent ELSE Doc(t[k], IdOf(k))]

\* ICloudTree.docwsids(): the ids, and the path recorded for an id
docwsids(t) == { t[k].docwsid : k \in Keys(t) }
PathOfId(t, id) == CHOOSE k \in Keys(t) : t[k].docwsid = id

\* Path.name
name(p) == IF p = << >> THEN "" ELSE p[Len(p)]

\* the test of the first loop of _apply_renames
IsRenamed(these, those, id) ==
    /\ id \in docwsids(these) \cap docwsids(those)
    /\ name(PathOfId(those, id)) # name(PathOfId(these, id))

RECURSIVE _apply_renames(_, _, _, _)
\* _apply_renames(these, those): r is [s, these, queue, raised], with s the
\* handlers' state, these the tree being re-keyed, queue the event queue
\* the watcher's echo of the rename is offered to, and raised set when the
\* rename of the file raised; these0 is the tree when the ids were read;
\* n documents are still to visit
_apply_renames(r, these0, those, n) ==
    IF n = 0 \/ r.raised THEN r
    ELSE LET id == DocIds[Len(DocIds) - n + 1]
             old == PathOfId(these0, id)
             new == PathOfId(those, id)
             supp == r.s.suppressed \cup {old, new}
             r1 == IF ~IsRenamed(these0, those, id) THEN r
                   ELSE IF r.s.disk[old] = Absent
                   THEN [r EXCEPT !.s.suppressed = supp, !.raised = TRUE]
                   ELSE [r EXCEPT !.s.suppressed = supp,
                                  !.s.disk = re_key(@, old, new),
                                  !.queue = _enqueue(@, supp, FileMoved, old, new),
                                  !.these = re_key(@, old, new)]
         IN _apply_renames(r1, these0, those, n - 1)

RnInit ==
    /\ cq_name = "eventQ"
    /\ cq_events = << >>
    /\ cq_coalesced = << >>
    /\ cq_pc = "off"
    /\ UnitOff
    /\ \E t \in InitTrees :
        /\ FilesOf(t) # {}
        /\ disk = t
        /\ local = t
        /\ drive = WithIds(t)
        /\ icloud = ICloudTree(WithIds(t), TRUE, TRUE)
    /\ event_queue = << >>
    /\ event_collector = << >>
    /\ refresh = << >>
    /\ refresh_queue = << >>
    /\ dispatching = << >>
    /\ suppressed = {}
    /\ futures = << >>
    /\ result = NoResult
    /\ sync_op = NoSyncOp
    /\ refresh_lock = "free"
    /\ pc = "collect"
    /\ job_pc = "idle"
    /\ timeloop = TRUE
    /\ error_log = << >>
    /\ refresh_log = "none"
    /\ clock = 2
    /\ fault_budget = MaxFaults

\* another device renames document src to the free name dst
RemoteRename(src, dst) ==
    /\ IsFile(drive[src])
    /\ drive[dst] = Absent
    /\ drive' = re_key(drive, src, dst)
    /\ UNCHANGED <<cq_vars, disk, local, icloud, refresh, event_queue,
                   refresh_queue, event_collector, dispatching, suppressed,
                   futures, result, sync_op, refresh_lock, pc, job_pc, timeloop,
                   error_log, refresh_log, clock, fault_budget>>

\* the end of the locked block of run(), _apply_renames included: apply or
\* discard self._refresh.  A rename that raises leaves run()'s inner loop.
RnApplyRefresh ==
    /\ pc = "apply"
    /\ IF refresh # << >> /\ CanApply
       THEN LET those == refresh[1].root
                r == _apply_renames([s |-> S, these |-> icloud.root,
                                     queue |-> event_queue, raised |-> FALSE],
                                    icloud.root, those, Len(DocIds))
                s1 == _apply_icloud_refresh(r.s, r.these, those)
            IN IF r.raised
               THEN /\ Becomes(r.s)
                    /\ icloud' = [icloud EXCEPT !.root = r.these]
                    /\ pc' = "start"
                    /\ UNCHANGED <<refresh, refresh_log>>
               ELSE /\ Becomes([s1 EXCEPT !.futures = Rebind(@, r.these)])
                    /\ icloud' = refresh[1]
                    /\ refresh_log' = "applying refresh"
                    /\ refresh' = << >>
                    /\ pc' = "collect"
               /\ event_queue' = r.queue
       ELSE /\ UNCHANGED <<disk, local, futures, suppressed, icloud, event_queue>>
            /\ refresh_log' = IF refresh # << >> THEN "refresh discarded"
                              ELSE refresh_log
            /\ refresh' = << >>
            /\ pc' = "collect"
    /\ refresh_lock' = "free"
    /\ UNCHANGED <<cq_vars, drive, refresh_queue, event_collector,
                   dispatching, result, sync_op, job_pc, timeloop, error_log,
                   clock, fault_budget>>

RnNext ==
    \/ \E src \in Files, dst \in Files : RemoteRename(src, dst)
    \/ \E p \in Files : RemoteDelete(p)
    \/ Collect
    \/ AcquireLock
    \/ DispatchDone
    \/ ProcessRefreshQueue
    \/ RnApplyRefresh
    \/ JobQuiesced
    \/ JobAcquire
    \/ JobBuild

SpecRename == RnInit /\ [][RnNext]_vars

\* ------------------------------------------------------------------------
\* A file created in a folder.  The sync directory is the root, with or
\* without folder a, in sync with the drive; the user makes folder a when
\* it is missing and writes the non-empty file a/b; remote calls succeed
\* and no other device writes to the drive.
\* ------------------------------------------------------------------------
FolderA == <<"a">>
FileB == <<"a", "b">>
CreatePaths == {ROOT_FOLDER_NAME, FolderA, FileB}

\* ICloudTree.process_folder(path, ignore=True, recursive=False): add() of
\* every child of path the drive lists and the filter does not ignore
process_folder_at(root, theDrive, path) ==
    IF root[path] = Absent THEN root
    ELSE [k \in DOMAIN root |->
            IF k # path /\ parent(k) = path /\ theDrive[k] # Absent /\ ~ignore(k)
            THEN theDrive[k] ELSE root[k]]

CrInit ==
    /\ cq_name = "eventQ"
    /\ cq_events = << >>
    /\ cq_coalesced = << >>
    /\ cq_pc = "off"
    /\ UnitOff
    /\ \E a \in {Absent, Folder} :
        LET t == [k \in CreatePaths |->
                    IF k = ROOT_FOLDER_NAME THEN Folder
                    ELSE IF k = FolderA THEN a ELSE Absent]
        IN /\ disk = t
           /\ local = t
           /\ drive = t
           /\ icloud = ICloudTree(t, TRUE, TRUE)
    /\ event_queue = << >>
    /\ event_collector = << >>
    /\ refresh = << >>
    /\ refresh_queue = << >>
    /\ dispatching = << >>
    /\ suppressed = {}
    /\ futures = << >>
    /\ result = NoResult
    /\ sync_op = NoSyncOp
    /\ refresh_lock = "free"
    /\ pc = "collect"
    /\ job_pc = "idle"
    /\ timeloop = TRUE
    /\ error_log = << >>
    /\ refresh_log = "none"
    /\ clock = 2
    /\ fault_budget = 0

\* the user makes folder a; on_created enqueues the event
CrUserMkdir ==
    /\ disk[FolderA] = Absent
    /\ disk' = [disk EXCEPT ![FolderA] = Folder]
    /\ event_queue' = _enqueue(event_queue, suppressed, FolderCreated, FolderA, NoPath)
    /\ UNCHANGED <<cq_vars, drive, local, icloud, refresh, refresh_queue,
                   event_collector, dispatching, suppressed, futures, result,
                   sync_op, refresh_lock, pc, job_pc, timeloop, error_log,
                   refresh_log, clock, fault_budget>>

\* the user writes the non-empty file a/b; on_created / on_modified
\* enqueue the event
CrUserWrite ==
    /\ clock <= MaxClock + 1
    /\ disk[FolderA] # Absent
    /\ disk' = [disk EXCEPT ![FileB] = File(clock, 1)]
    /\ clock' = clock + 1
    /\ event_queue' = _enqueue(event_queue, suppressed,
                        IF disk[FileB] = Absent THEN FileCreated ELSE FileModified,
                        FileB, NoPath)
    /\ UNCHANGED <<cq_vars, drive, local, icloud, refresh, refresh_queue,
                   event_collector, dispatching, suppressed, futures, result,
                   sync_op, refresh_lock, pc, job_pc, timeloop, error_log,
                   refresh_log, fault_budget>>

\* one turn of the loop of _dispatch_events over a created folder or a
\* created or modified file
CrDispatchEvent ==
    /\ pc = "dispatch"
    /\ dispatching # << >>
    /\ LET e == Head(dispatching)
           live == icloud.root
           s0 == [S EXCEPT !.suppressed = @ \cup {e.src_path, e.dest_path}]
       IN \/ /\ e.kind \in {FileCreated, FileModified}
             /\ Becomes(_handle_file_modified(s0, e.src_path, live))
          \/ /\ e.kind = FolderCreated
             /\ Becomes(_handle_folder_created(s0, e.src_path, live))
    /\ dispatching' = Tail(dispatching)
    /\ UNCHANGED <<cq_vars, drive, icloud, refresh, event_queue, refresh_queue,
                   event_collector, result, sync_op, refresh_lock, pc, job_pc,
                   timeloop, error_log, refresh_log, clock, fault_budget>>

\* ICloudTree.create_icloud_folders(a) returns: the folder is made on the
\* drive and the root is rescanned when the tree does not list it, else
\* there is nothing to make; the lookup of the root raises KeyError in a
\* tree without it, and so does the lookup of the folder after a rescan
\* that ignored it
CrMkDirFinish ==
    /\ \E i \in 1..Len(futures) :
        LET fut == futures[i]
            root == TreeOf(fut)
            made == [drive EXCEPT ![fut.path] = Folder]
        IN /\ fut.op = "create_icloud_folders"
           /\ fut.st = "running"
           /\ fut.path = FolderA
           /\ IF root[ROOT_FOLDER_NAME] = Absent
              THEN /\ Settle(i, Done(fut, "MkDir", FALSE, fut.retry - 1, root), root)
                   /\ UNCHANGED drive
              ELSE IF root[fut.path] = Absent
              THEN /\ drive' = made
                   /\ LET scanned == process_folder_at(root, made, ROOT_FOLDER_NAME)
                      IN IF scanned[fut.path] = Absent
                         THEN Settle(i, Done(fut, "MkDir", FALSE, fut.retry - 1, scanned),
                                     scanned)
                         ELSE Settle(i, Done(fut, "MkDir", TRUE, 0, scanned), scanned)
              ELSE /\ Settle(i, Done(fut, "Nil", TRUE, 0, root), root)
                   /\ UNCHANGED drive
    /\ UNCHANGED <<cq_vars, disk, local, refresh, event_queue,
                   refresh_queue, event_collector, dispatching, suppressed,
                   result, sync_op, refresh_lock, pc, job_pc, timeloop,
                   error_log, refresh_log, clock, fault_budget>>

\* ICloudTree.process_folder(path) runs in the unlimited pool
CrProcessFolderRun ==
    /\ \E i \in 1..Len(futures) :
        LET fut == futures[i]
            root == TreeOf(fut)
        IN /\ fut.op = "process_folder"
           /\ fut.st = "queued"
           /\ IF root[fut.path] = Absent
              THEN Settle(i, Done(fut, "Nil", TRUE, 0, root), root)
              ELSE Settle(i, Done(fut, "Refresh", TRUE, 0,
                                  process_folder_at(root, drive, fut.path)),
                          process_folder_at(root, drive, fut.path))
    /\ UNCHANGED <<cq_vars, disk, drive, local, refresh, event_queue,
                   refresh_queue, event_collector, dispatching, suppressed,
                   result, sync_op, refresh_lock, pc, job_pc, timeloop,
                   error_log, refresh_log, clock, fault_budget>>

CrNext ==
    \/ CrUserMkdir
    \/ CrUserWrite
    \/ Collect
    \/ AcquireLock
    \/ CrDispatchEvent
    \/ DispatchDone
    \/ FuturesRound
    \/ TakeResult
    \/ HandleActionResult
    \/ ProcessRefreshQueue
    \/ ApplyRefresh
    \/ SerialStart
    \/ CrMkDirFinish
    \/ UploadFinish
    \/ CrProcessFolderRun

SpecCreate == CrInit /\ [][CrNext]_vars

\* ------------------------------------------------------------------------
\* Local deletes.  The sync directory holds folder a, with or without the
\* file a/b, in sync with the drive; the user removes the file or the
\* folder with what it holds, and makes them again; remote calls succeed
\* and no other device writes to the drive.
\* ------------------------------------------------------------------------
DlInit ==
    /\ cq_name = "eventQ"
    /\ cq_events = << >>
    /\ cq_coalesced = << >>
    /\ cq_pc = "off"
    /\ UnitOff
    /\ \E b \in {Absent, File(1, 1)} :
        LET t == [k \in CreatePaths |-> IF k = FileB THEN b ELSE Folder]
        IN /\ disk = t
           /\ local = t
           /\ drive = t
           /\ icloud = ICloudTree(t, TRUE, TRUE)
    /\ event_queue = << >>
    /\ event_collector = << >>
    /\ refresh = << >>
    /\ refresh_queue = << >>
    /\ dispatching = << >>
    /\ suppressed = {}
    /\ futures = << >>
    /\ result = NoResult
    /\ sync_op = NoSyncOp
    /\ refresh_lock = "free"
    /\ pc = "collect"
    /\ job_pc = "idle"
    /\ timeloop = TRUE
    /\ error_log = << >>
    /\ refresh_log = "none"
    /\ clock = 2
    /\ fault_budget = 0

\* the user removes the file a/b; on_deleted enqueues the event
DlUserRemoveFile ==
    /\ clock <= MaxClock + 1
    /\ disk[FileB] # Absent
    /\ disk' = [disk EXCEPT ![FileB] = Absent]
    /\ clock' = clock + 1
    /\ event_queue' = _enqueue(event_queue, suppressed, FileDeleted, FileB, NoPath)
    /\ UNCHANGED <<cq_vars, drive, local, icloud, refresh, refresh_queue,
                   event_collector, dispatching, suppressed, futures, result,
                   sync_op, refresh_lock, pc, job_pc, timeloop, error_log,
                   refresh_log, fault_budget>>

\* the user removes folder a and what it holds; on_deleted enqueues the
\* event of the file, then that of the folder
DlUserRemoveFolder ==
    /\ clock <= MaxClock + 1
    /\ disk[FolderA] # Absent
    /\ disk' = prune(disk, FolderA)
    /\ clock' = clock + 1
    /\ LET q == IF disk[FileB] = Absent THEN event_queue
                ELSE _enqueue(event_queue, suppressed, FileDeleted, FileB, NoPath)
       IN event_queue' = _enqueue(q, suppressed, FolderDeleted, FolderA, NoPath)
    /\ UNCHANGED <<cq_vars, drive, local, icloud, refresh, refresh_queue,
                   event_collector, dispatching, suppressed, futures, result,
                   sync_op, refresh_lock, pc, job_pc, timeloop, error_log,
                   refresh_log, fault_budget>>

\* one turn of the loop of _dispatch_events over a created or deleted
\* folder or file
DlDispatchEvent ==
    /\ pc = "dispatch"
    /\ dispatching # << >>
    /\ LET e == Head(dispatching)
           live == icloud.root
           s0 == [S EXCEPT !.suppressed = @ \cup {e.src_path, e.dest_path}]
       IN \/ /\ e.kind \in {FileCreated, FileModified}
             /\ Becomes(_handle_file_modified(s0, e.src_path, live))
          \/ /\ e.kind = FolderCreated
             /\ Becomes(_handle_folder_created(s0, e.src_path, live))
          \/ /\ e.kind = FileDeleted
             /\ \E reappeared \in (IF disk[e.src_path] # Absent
                                    THEN BOOLEAN ELSE {FALSE}) :
                    Becomes(_handle_file_deleted(s0, e.src_path, live, reappeared))
          \/ /\ e.kind = FolderDeleted
             /\ \E reappeared \in (IF disk[e.src_path] # Absent
                                    THEN BOOLEAN ELSE {FALSE}) :
                    Becomes(_handle_folder_deleted(s0, e.src_path, live, reappeared))
    /\ dispatching' = Tail(dispatching)
    /\ UNCHANGED <<cq_vars, drive, icloud, refresh, event_queue, refresh_queue,
                   event_collector, result, sync_op, refresh_lock, pc, job_pc,
                   timeloop, error_log, refresh_log, clock, fault_budget>>

\* ICloudTree.delete returns: Nil when the tree does not list the path or
\* its parent; else the node is deleted on the drive, and the tree loses
\* the path, with what it holds when it is a folder
DlDeleteFinish ==
    /\ \E i \in 1..Len(futures) :
        LET fut == futures[i]
            root == TreeOf(fut)
            path == fut.path
            listed == root[parent(path)] # Absent /\ root[path] # Absent
            left == IF IsFile(root[path]) THEN [root EXCEPT ![path] = Absent]
                    ELSE prune(root, path)
        IN /\ fut.op = "delete"
           /\ fut.st = "running"
           /\ \/ /\ ~listed
                 /\ Settle(i, Done(fut, "Nil", TRUE, 0, root), root)
                 /\ UNCHANGED drive
              \/ /\ listed
                 /\ drive' = prune(drive, path)
                 /\ Settle(i, Done(fut, "Delete", TRUE, 0, left), left)
    /\ UNCHANGED <<cq_vars, disk, local, refresh, event_queue, refresh_queue,
                   event_collector, dispatching, suppressed, result, sync_op,
                   refresh_lock, pc, job_pc, timeloop, error_log, refresh_log,
                   clock, fault_budget>>

DlNext ==
    \/ DlUserRemoveFile
    \/ DlUserRemoveFolder
    \/ CrUserMkdir
    \/ CrUserWrite
    \/ Collect
    \/ AcquireLock
    \/ DlDispatchEvent
    \/ DispatchDone
    \/ FuturesRound
    \/ TakeResult
    \/ HandleActionResult
    \/ ProcessRefreshQueue
    \/ ApplyRefresh
    \/ SerialStart
    \/ CrMkDirFinish
    \/ UploadFinish
    \/ DlDeleteFinish
    \/ CrProcessFolderRun

SpecDelete == DlInit /\ [][DlNext]_vars

\* ------------------------------------------------------------------------
\* A local create under a filter.  The sync directory holds the root and
\* perhaps folder a; the trees and the drive hold what the scan under the
\* filter keeps; the user makes folder a or writes the file a/b.
\* ------------------------------------------------------------------------
\* the patterns a, a$, a/.*, .*b and .*
UserPatterns ==
    { <<"a">>, <<"a", "$">>, <<"a", "/", ".*">>, <<".*", "b">>, <<".*">> }

\* ctx.ignore_regexes and ctx.include_regexes: no pattern or one
UserRegexes == { << >> } \cup { << regex >> : regex \in UserPatterns }

\* LocalTree.refresh over the sync directory: the root, and every entry
\* _add_children reaches, which does not descend into an ignored folder
LocalTree_refresh(theDisk) ==
    [k \in DOMAIN theDisk |->
        IF k = ROOT_FOLDER_NAME THEN Folder
        ELSE IF \A i \in 1..Len(k) : ~ignore(SubSeq(k, 1, i))
        THEN theDisk[k] ELSE Absent]

FtInit ==
    /\ cq_name = "eventQ"
    /\ cq_events = << >>
    /\ cq_coalesced = << >>
    /\ cq_pc = "off"
    /\ pm_data = << >>
    /\ pm_call = << >>
    /\ pm_snapshot = {}
    /\ pm_before = << >>
    /\ pm_seen = {}
    /\ pm_pc = "off"
    /\ \E ignores \in UserRegexes, includes \in UserRegexes :
        /\ ignore_regexes = builtin_ignore_regexes \o ignores
        /\ includes_regexes = includes
    /\ ig_path = << >>
    /\ ig_result = FALSE
    /\ RcOff
    /\ JbOff
    /\ ExtraOff
    /\ \E a \in {Absent, Folder} :
        /\ disk = [k \in CreatePaths |->
                    IF k = ROOT_FOLDER_NAME THEN Folder
                    ELSE IF k = FolderA THEN a ELSE Absent]
        /\ local = LocalTree_refresh(disk)
        /\ drive = local
        /\ icloud = ICloudTree(local, TRUE, TRUE)
    /\ event_queue = << >>
    /\ event_collector = << >>
    /\ refresh = << >>
    /\ refresh_queue = << >>
    /\ dispatching = << >>
    /\ suppressed = {}
    /\ futures = << >>
    /\ result = NoResult
    /\ sync_op = NoSyncOp
    /\ refresh_lock = "free"
    /\ pc = "collect"
    /\ job_pc = "idle"
    /\ timeloop = TRUE
    /\ error_log = << >>
    /\ refresh_log = "none"
    /\ clock = 2
    /\ fault_budget = 0

FtNext ==
    \/ CrUserMkdir
    \/ CrUserWrite
    \/ Collect
    \/ AcquireLock
    \/ CrDispatchEvent
    \/ DispatchDone
    \/ FuturesRound
    \/ TakeResult
    \/ HandleActionResult
    \/ ProcessRefreshQueue
    \/ ApplyRefresh
    \/ SerialStart
    \/ CrMkDirFinish
    \/ UploadFinish
    \/ CrProcessFolderRun

SpecFilter == FtInit /\ [][FtNext]_vars

\* ------------------------------------------------------------------------
\* BaseTree.ignore on its own, called with every path of up to two names
\* under every filter of at most one user ignore and one user include regex
\* ------------------------------------------------------------------------
\* names of entries: a, b, ab and .DS_Store
IgnoreNames == { <<"a">>, <<"b">>, <<"a", "b">>, <<"!">> }
IgnorePaths ==
    { << n >> : n \in IgnoreNames } \cup { << n, m >> : n \in IgnoreNames, m \in IgnoreNames }

IgInit ==
    /\ cq_name = "eventQ"
    /\ cq_events = << >>
    /\ cq_coalesced = << >>
    /\ cq_pc = "off"
    /\ pm_data = << >>
    /\ pm_call = << >>
    /\ pm_snapshot = {}
    /\ pm_before = << >>
    /\ pm_seen = {}
    /\ pm_pc = "off"
    /\ \E ignores \in UserRegexes, includes \in UserRegexes :
        /\ ignore_regexes = builtin_ignore_regexes \o ignores
        /\ includes_regexes = includes
    /\ ig_path = << >>
    /\ ig_result = FALSE
    /\ RcOff
    /\ JbOff
    /\ ExtraOff
    /\ Constructed(RootOnly, RootOnly)

\* ignore(path)
IgnoreCall(path) ==
    /\ ig_path' = str(path)
    /\ ig_result' = ignore_under(ignore_regexes, includes_regexes, str(path))
    /\ UNCHANGED <<cq_name, cq_events, cq_coalesced, cq_pc, pm_data, pm_call,
                   pm_snapshot, pm_before, pm_seen, pm_pc, ignore_regexes,
                   includes_regexes, rc_vars, jb_vars, extra_vars,
                   main_vars>>

IgNext == \E path \in IgnorePaths : IgnoreCall(path)

SpecIgnore == IgInit /\ [][IgNext]_vars

\* ------------------------------------------------------------------------
\* ICloudTree.refresh on its own: the root and the trash of the drive hold
\* files only; the two walks run in either order while other devices
\* create files and move files to the trash
\* ------------------------------------------------------------------------
RcFiles == { <<"f">>, <<"g">> }

\* node.data['fileCount'] of the root node as the service reports it: the
\* files under the root (ICloudFolderInfo.file_count), or those and the
\* files in the trash (the sum refresh() compares it with)
RootFileCounts(theDrive) ==
    { Cardinality(theDrive.root),
      Cardinality(theDrive.root) + Cardinality(theDrive.trash) }

\* node.data['fileCount'] of the trash node, which no code reads: the files
\* in the trash, or 0 when the service counts them under the root only
TrashFileCounts(theDrive) == { 0, Cardinality(theDrive.trash) }

RcInit ==
    /\ cq_name = "eventQ"
    /\ cq_events = << >>
    /\ cq_coalesced = << >>
    /\ cq_pc = "off"
    /\ pm_data = << >>
    /\ pm_call = << >>
    /\ pm_snapshot = {}
    /\ pm_before = << >>
    /\ pm_seen = {}
    /\ pm_pc = "off"
    /\ ignore_regexes = builtin_ignore_regexes
    /\ includes_regexes = << >>
    /\ ig_path = << >>
    /\ ig_result = FALSE
    /\ \E inRoot \in SUBSET RcFiles, inTrash \in SUBSET RcFiles :
        /\ inRoot \cap inTrash = {}
        /\ rc_drive = [root |-> inRoot, trash |-> inTrash]
    /\ rc_root = {}
    /\ rc_trash = {}
    /\ rc_fileCount = 0
    /\ rc_trashFileCount = 0
    /\ rc_succeeded = FALSE
    /\ rc_pc = "idle"
    /\ JbOff
    /\ ExtraOff
    /\ Constructed(RootOnly, RootOnly)

\* another device creates the file
RcRemoteCreate(file) ==
    /\ rc_pc # "done"
    /\ file \notin rc_drive.root \cup rc_drive.trash
    /\ rc_drive' = [rc_drive EXCEPT !.root = @ \cup {file}]
    /\ UNCHANGED <<cq_name, cq_events, cq_coalesced, cq_pc, pm_data, pm_call,
                   pm_snapshot, pm_before, pm_seen, pm_pc, filter_vars, rc_root,
                   rc_trash, rc_fileCount, rc_trashFileCount, rc_succeeded,
                   rc_pc, jb_vars, extra_vars,
                   main_vars>>

\* another device deletes the file: it moves to the trash
RcRemoteTrash(file) ==
    /\ rc_pc # "done"
    /\ file \in rc_drive.root
    /\ rc_drive' = [root |-> rc_drive.root \ {file},
                    trash |-> rc_drive.trash \cup {file}]
    /\ UNCHANGED <<cq_name, cq_events, cq_coalesced, cq_pc, pm_data, pm_call,
                   pm_snapshot, pm_before, pm_seen, pm_pc, filter_vars, rc_root,
                   rc_trash, rc_fileCount, rc_trashFileCount, rc_succeeded,
                   rc_pc, jb_vars, extra_vars,
                   main_vars>>

\* refresh(): both maps cleared and given their root folder record, which
\* wraps the node of the drive's root or trash
RcStart ==
    /\ rc_pc = "idle"
    /\ rc_root' = {}
    /\ rc_trash' = {}
    /\ rc_fileCount' \in RootFileCounts(rc_drive)
    /\ rc_trashFileCount' \in TrashFileCounts(rc_drive)
    /\ rc_pc' = "walk"
    /\ UNCHANGED <<cq_name, cq_events, cq_coalesced, cq_pc, pm_data, pm_call,
                   pm_snapshot, pm_before, pm_seen, pm_pc, filter_vars, rc_drive,
                   rc_succeeded, jb_vars, extra_vars,
                   main_vars>>

\* process_folder(root=True, path=".", recursive=True, ignore=False)
RcWalkRoot ==
    /\ rc_pc \in {"walk", "trash walked"}
    /\ rc_root' = rc_drive.root
    /\ rc_pc' = IF rc_pc = "walk" THEN "root walked" ELSE "walked"
    /\ UNCHANGED <<cq_name, cq_events, cq_coalesced, cq_pc, pm_data, pm_call,
                   pm_snapshot, pm_before, pm_seen, pm_pc, filter_vars, rc_drive,
                   rc_trash, rc_fileCount, rc_trashFileCount, rc_succeeded,
                   jb_vars, extra_vars,
                   main_vars>>

\* process_folder(root=False, path=".", recursive=True, ignore=False)
RcWalkTrash ==
    /\ rc_pc \in {"walk", "root walked"}
    /\ rc_trash' = rc_drive.trash
    /\ rc_pc' = IF rc_pc = "walk" THEN "trash walked" ELSE "walked"
    /\ UNCHANGED <<cq_name, cq_events, cq_coalesced, cq_pc, pm_data, pm_call,
                   pm_snapshot, pm_before, pm_seen, pm_pc, filter_vars, rc_drive,
                   rc_root, rc_fileCount, rc_trashFileCount, rc_succeeded,
                   jb_vars, extra_vars,
                   main_vars>>

\* the comparison of self._root_count() with the files of both maps
consistent(fileCount, rootFiles, trashFiles) ==
    ~(fileCount # Cardinality(rootFiles) + Cardinality(trashFiles))

\* the rest of refresh(): MismatchException or not, and the return
RcCheck ==
    /\ rc_pc = "walked"
    /\ rc_succeeded' = consistent(rc_fileCount, rc_root, rc_trash)
    /\ rc_pc' = "done"
    /\ UNCHANGED <<cq_name, cq_events, cq_coalesced, cq_pc, pm_data, pm_call,
                   pm_snapshot, pm_before, pm_seen, pm_pc, filter_vars, rc_drive,
                   rc_root, rc_trash, rc_fileCount, rc_trashFileCount,
                   jb_vars, extra_vars,
                   main_vars>>

RcNext ==
    \/ \E file \in RcFiles : RcRemoteCreate(file)
    \/ \E file \in RcFiles : RcRemoteTrash(file)
    \/ RcStart
    \/ RcWalkRoot
    \/ RcWalkTrash
    \/ RcCheck

SpecCount == RcInit /\ [][RcNext]_vars

\* ------------------------------------------------------------------------
\* The periodic jobs on their own: the dirty check and the refresh tick of
\* the timer thread, next to remote operations of the live tree that fail
\* ------------------------------------------------------------------------
MaxJobs == 2

\* ICloudTree._handle_drive_exception, every case: the tree that caught
\* the exception forgets its login and the jobs-paused event is set
DriveExceptions == {"PyiCloudAPIResponseException", "PyiCloudFailedLoginException"}

JbInit ==
    /\ cq_name = "eventQ"
    /\ cq_events = << >>
    /\ cq_coalesced = << >>
    /\ cq_pc = "off"
    /\ pm_data = << >>
    /\ pm_call = << >>
    /\ pm_snapshot = {}
    /\ pm_before = << >>
    /\ pm_seen = {}
    /\ pm_pc = "off"
    /\ ignore_regexes = builtin_ignore_regexes
    /\ includes_regexes = << >>
    /\ ig_path = << >>
    /\ ig_result = FALSE
    /\ RcOff
    /\ jb_disabled = FALSE
    /\ jb_auth = TRUE
    /\ jb_dirty = FALSE
    /\ jb_refresh = "none"
    /\ jb_inflight = FALSE
    /\ jb_probes = 0
    /\ jb_builds = 0
    /\ jb_last = "registered"
    /\ ExtraOff
    /\ Constructed(RootOnly, RootOnly)

\* an event is queued or a future is pending
JbWorkArrives ==
    /\ ~jb_inflight
    /\ jb_inflight' = TRUE
    /\ jb_last' = "work"
    /\ UNCHANGED <<cq_name, cq_events, cq_coalesced, cq_pc, pm_data, pm_call,
                   pm_snapshot, pm_before, pm_seen, pm_pc, filter_vars, rc_vars,
                   jb_disabled, jb_auth, jb_dirty, jb_refresh, jb_probes,
                   jb_builds, extra_vars, main_vars>>

\* a remote operation of the live tree succeeds
JbWorkDone ==
    /\ jb_inflight
    /\ jb_inflight' = FALSE
    /\ jb_last' = "done"
    /\ UNCHANGED <<cq_name, cq_events, cq_coalesced, cq_pc, pm_data, pm_call,
                   pm_snapshot, pm_before, pm_seen, pm_pc, filter_vars, rc_vars,
                   jb_disabled, jb_auth, jb_dirty, jb_refresh, jb_probes,
                   jb_builds, extra_vars, main_vars>>

\* a remote operation of the live tree raises: _handle_drive_exception
JbWorkFails(e) ==
    /\ jb_inflight
    /\ jb_inflight' = FALSE
    /\ jb_auth' = FALSE
    /\ jb_disabled' = TRUE
    /\ jb_last' = e
    /\ UNCHANGED <<cq_name, cq_events, cq_coalesced, cq_pc, pm_data, pm_call,
                   pm_snapshot, pm_before, pm_seen, pm_pc, filter_vars, rc_vars,
                   jb_dirty, jb_refresh, jb_probes, jb_builds, extra_vars, main_vars>>

\* the body of _refresh_icloud once nothing is in flight: a new ICloudTree
\* is built and refreshed; a consistent one is published
BuildRefresh(outcome, dirty) ==
    /\ jb_builds' = jb_builds + 1
    /\ jb_refresh' = IF outcome = "consistent" THEN "tree" ELSE jb_refresh
    /\ jb_dirty' = IF outcome = "consistent" THEN FALSE ELSE dirty
    /\ jb_disabled' = IF outcome \in DriveExceptions THEN TRUE ELSE jb_disabled

RefreshResults == {"consistent", "inconsistent"} \cup DriveExceptions

\* EventHandler._refresh_icloud as the timer calls it
_refresh_icloud(elapsed) ==
    IF ~elapsed
    THEN /\ jb_last' = "tick skipped"
         /\ UNCHANGED <<jb_disabled, jb_auth, jb_dirty, jb_refresh, jb_inflight,
                         jb_probes, jb_builds>>
    ELSE /\ ~jb_inflight
         /\ jb_builds < MaxJobs
         /\ \E outcome \in RefreshResults : BuildRefresh(outcome, jb_dirty)
         /\ jb_last' = "tick built"
         /\ UNCHANGED <<jb_auth, jb_inflight, jb_probes>>

JbRefreshTick ==
    /\ \E elapsed \in BOOLEAN : _refresh_icloud(elapsed)
    /\ UNCHANGED <<cq_name, cq_events, cq_coalesced, cq_pc, pm_data, pm_call,
                   pm_snapshot, pm_before, pm_seen, pm_pc, filter_vars, rc_vars,
                   extra_vars, main_vars>>

\* EventHandler._is_icloud_dirty with ICloudTree.is_dirty: no probe when
\* the live tree is not logged in; a raising probe counts as no change; a
\* change forces a refresh
_is_icloud_dirty ==
    IF jb_dirty \/ jb_inflight
    THEN /\ jb_last' = "check skipped"
         /\ UNCHANGED <<jb_disabled, jb_auth, jb_dirty, jb_refresh, jb_inflight,
                         jb_probes, jb_builds>>
    ELSE IF ~jb_auth
    THEN /\ jb_last' = "check unauthenticated"
         /\ jb_dirty' = FALSE
         /\ UNCHANGED <<jb_disabled, jb_auth, jb_refresh, jb_inflight, jb_probes,
                         jb_builds>>
    ELSE /\ jb_probes < MaxJobs
         /\ jb_probes' = jb_probes + 1
         /\ \/ /\ jb_last' = "probe same"
               /\ jb_dirty' = FALSE
               /\ UNCHANGED <<jb_disabled, jb_auth, jb_refresh, jb_inflight,
                               jb_builds>>
            \/ /\ jb_last' = "probe raised"
               /\ jb_dirty' = FALSE
               /\ jb_auth' = FALSE
               /\ jb_disabled' = TRUE
               /\ UNCHANGED <<jb_refresh, jb_inflight, jb_builds>>
            \/ /\ jb_last' = "probe changed"
               /\ jb_builds < MaxJobs
               /\ \E outcome \in RefreshResults : BuildRefresh(outcome, TRUE)
               /\ UNCHANGED <<jb_auth, jb_inflight>>

JbDirtyCheck ==
    /\ _is_icloud_dirty
    /\ UNCHANGED <<cq_name, cq_events, cq_coalesced, cq_pc, pm_data, pm_call,
                   pm_snapshot, pm_before, pm_seen, pm_pc, filter_vars, rc_vars,
                   extra_vars, main_vars>>

\* the end of a round of run(): a published refresh is applied and becomes
\* the live tree when nothing is in flight, and is dropped otherwise
JbApplyRefresh ==
    /\ jb_refresh = "tree"
    /\ jb_refresh' = "none"
    /\ jb_auth' = IF jb_inflight THEN jb_auth ELSE TRUE
    /\ jb_last' = IF jb_inflight THEN "discarded" ELSE "applied"
    /\ UNCHANGED <<cq_name, cq_events, cq_coalesced, cq_pc, pm_data, pm_call,
                   pm_snapshot, pm_before, pm_seen, pm_pc, filter_vars, rc_vars,
                   jb_disabled, jb_dirty, jb_inflight, jb_probes, jb_builds, extra_vars, main_vars>>

JbNext ==
    \/ JbWorkArrives
    \/ JbWorkDone
    \/ \E e \in DriveExceptions : JbWorkFails(e)
    \/ JbRefreshTick
    \/ JbDirtyCheck
    \/ JbApplyRefresh

SpecJobs == JbInit /\ [][JbNext]_vars

\* ------------------------------------------------------------------------
\* ICloudTree.create_icloud_folders on its own.  The drive holds folders
\* named a and .DS_Store up to MkDepth levels deep, and the live tree lists
\* those of them the filter lets through (or nothing at all, after a refresh
\* that failed before the root was added); no other device writes to the
\* drive and the drive's calls succeed.
\* ------------------------------------------------------------------------
MkDepth == 2

MkNames == {"a", "!"}

RECURSIVE MkPathsOfDepth(_)
MkPathsOfDepth(n) ==
    IF n = 0 THEN { << >> }
    ELSE { Append(p, c) : p \in MkPathsOfDepth(n - 1), c \in MkNames }

MkPaths == UNION { MkPathsOfDepth(n) : n \in 0..MkDepth }

\* the folders of the drive stand in folders of the drive
MkDrives ==
    { d \in [MkPaths -> {Absent, Folder}] :
        /\ d[ROOT_FOLDER_NAME] = Folder
        /\ \A k \in MkPaths : d[k] # Absent => d[parent(k)] # Absent }

\* the tree a recursive, filtered walk of the drive builds
Listed(theDrive) ==
    [k \in MkPaths |->
        IF k = ROOT_FOLDER_NAME \/ ~ignore(k) THEN theDrive[k] ELSE Absent]

NoTree == [k \in MkPaths |-> Absent]

\* the state of one create_icloud_folders call: the live tree, the drive,
\* the folder paths parent_node.mkdir was called for, and the class of the
\* result so far ("Nil" while result is None)
MkState(root, theDrive, calls, cls) ==
    [root |-> root, drive |-> theDrive, calls |-> calls, cls |-> cls]

\* one turn of the loop that makes every component, listed or not
mkdir_every_component(s, path, i) ==
    LET folder_path == SubSeq(path, 1, i)
        _path == SubSeq(path, 1, i - 1)
        made == [s.drive EXCEPT ![folder_path] = Folder]
        scanned == process_folder_at(s.root, made, _path)
    IN MkState(scanned, made, Append(s.calls, folder_path),
               IF scanned[folder_path] = Absent THEN "MkDirFailed" ELSE "MkDir")

\* one turn of "for folder in path.parts" for the i-th part: mkdir under the
\* parent's node and a flat, filtered rescan of the parent when folder_path
\* is not in self._root; self._root[folder_path] raises KeyError when the
\* rescan did not add it
mkdir_component(s, path, i) ==
    LET folder_path == SubSeq(path, 1, i)
        _path == SubSeq(path, 1, i - 1)
        made == [s.drive EXCEPT ![folder_path] = Folder]
        scanned == process_folder_at(s.root, made, _path)
    IN IF s.root[folder_path] = Absent
       THEN MkState(scanned, made, Append(s.calls, folder_path),
                    IF scanned[folder_path] = Absent THEN "MkDirFailed" ELSE "MkDir")
       ELSE s

RECURSIVE mkdir_parts(_, _, _)
\* the loop from the i-th part on; an exception leaves it
mkdir_parts(s, path, i) ==
    IF i > Len(path) \/ s.cls = "MkDirFailed" THEN s
    ELSE mkdir_parts(mkdir_component(s, path, i), path, i + 1)

\* create_icloud_folders(path): self._root[ROOT_FOLDER_NAME] raises KeyError
\* when the tree has no root
create_icloud_folders(root, theDrive, path) ==
    IF root[ROOT_FOLDER_NAME] = Absent
    THEN MkState(root, theDrive, << >>, "MkDirFailed")
    ELSE mkdir_parts(MkState(root, theDrive, << >>, "Nil"), path, 1)

MkInit ==
    /\ cq_name = "eventQ"
    /\ cq_events = << >>
    /\ cq_coalesced = << >>
    /\ cq_pc = "off"
    /\ pm_data = << >>
    /\ pm_call = << >>
    /\ pm_snapshot = {}
    /\ pm_before = << >>
    /\ pm_seen = {}
    /\ pm_pc = "off"
    /\ ignore_regexes = builtin_ignore_regexes
    /\ includes_regexes = << >>
    /\ ig_path = << >>
    /\ ig_result = FALSE
    /\ RcOff
    /\ JbOff
    /\ mk_drive \in MkDrives
    /\ mk_root \in {Listed(mk_drive), NoTree}
    /\ mk_path = << >>
    /\ mk_before = mk_root
    /\ mk_calls = << >>
    /\ mk_cls = "none"
    /\ mk_pc = "idle"
    /\ LkOff
    /\ TrOff
    /\ Constructed(RootOnly, RootOnly)

\* self._icloud.create_icloud_folders(path); mk_pc tells a call that repeats
\* the call before it, when that one returned a successful MkDir
MkCall(path) ==
    LET done == create_icloud_folders(mk_root, mk_drive, path)
    IN /\ mk_before' = mk_root
       /\ mk_root' = done.root
       /\ mk_drive' = done.drive
       /\ mk_calls' = done.calls
       /\ mk_cls' = done.cls
       /\ mk_path' = path
       /\ mk_pc' = IF mk_cls = "MkDir" /\ mk_path = path THEN "again" ELSE "called"
       /\ UNCHANGED <<cq_name, cq_events, cq_coalesced, cq_pc, pm_data, pm_call,
                      pm_snapshot, pm_before, pm_seen, pm_pc, filter_vars,
                      rc_vars, jb_vars, lk_vars, tr_vars, main_vars>>

MkNext == \E path \in MkPaths \ {ROOT_FOLDER_NAME} : MkCall(path)

SpecMkdir == MkInit /\ [][MkNext]_vars

\* ------------------------------------------------------------------------
\* The locks on their own: the run loop, the two periodic jobs (each on its
\* own thread), the user and another device.  What the handlers and the
\* workers do is left open: a dispatch, a result, a rescan hint or an applied
\* refresh may or may not submit a future.  Remote calls succeed; a refresh
\* walked while another device writes may come out inconsistent.
\* ------------------------------------------------------------------------
\* events of the user, writes of the other device and futures submitted again
MaxChanges == 2

JobThreads == {"dirty", "timer"}

lk_others ==
    <<cq_name, cq_events, cq_coalesced, cq_pc, pm_data, pm_call, pm_snapshot,
      pm_before, pm_seen, pm_pc, filter_vars, rc_vars, jb_vars, mk_vars,
      tr_vars, main_vars>>

LkInit ==
    /\ cq_name = "eventQ"
    /\ cq_events = << >>
    /\ cq_coalesced = << >>
    /\ cq_pc = "off"
    /\ pm_data = << >>
    /\ pm_call = << >>
    /\ pm_snapshot = {}
    /\ pm_before = << >>
    /\ pm_seen = {}
    /\ pm_pc = "off"
    /\ ignore_regexes = builtin_ignore_regexes
    /\ includes_regexes = << >>
    /\ ig_path = << >>
    /\ ig_result = FALSE
    /\ RcOff
    /\ JbOff
    /\ MkOff
    /\ TrOff
    /\ lk_pc = "collect"
    /\ lk_refresh_lock = "free"
    /\ lk_set_lock = "free"
    /\ lk_entered = FALSE
    /\ lk_pending = 0
    /\ lk_events = 0
    /\ lk_collected = 0
    /\ lk_changed = FALSE
    /\ lk_dirty = FALSE
    /\ lk_refresh = "none"
    /\ lk_torn = FALSE
    /\ lk_elapsed = FALSE
    /\ lk_job = [t \in JobThreads |-> "idle"]
    /\ lk_probes = 0
    /\ lk_builds = 0
    /\ lk_budget = MaxChanges
    /\ lk_last = "none"
    /\ lk_counted = TRUE
    /\ Constructed(RootOnly, RootOnly)

\* the futures a step may submit: none, or one while the budget lasts
Submits == IF lk_budget > 0 THEN {0, 1} ELSE {0}

\* the watcher puts an event of the user on the event queue
LkUserEvent ==
    /\ lk_budget > 0
    /\ lk_events = 0
    /\ lk_events' = 1
    /\ lk_budget' = lk_budget - 1
    /\ UNCHANGED <<lk_others, lk_counted, lk_pc, lk_refresh_lock, lk_set_lock, lk_entered,
                   lk_pending, lk_collected, lk_changed, lk_dirty, lk_refresh,
                   lk_torn, lk_elapsed, lk_job, lk_probes, lk_builds, lk_last>>

\* another device writes to the drive: the drive differs from the live
\* tree (lk_changed), its counters from those the live tree's nodes hold
\* (lk_counted), a published refresh is out of date, a walk under way is
\* torn
LkRemoteChange ==
    /\ lk_budget > 0
    /\ lk_changed' = TRUE
    /\ lk_refresh' = IF lk_refresh = "current" THEN "stale" ELSE lk_refresh
    /\ lk_torn' = \E t \in JobThreads : lk_job[t] = "walk"
    /\ lk_budget' = lk_budget - 1
    /\ lk_counted' = FALSE
    /\ UNCHANGED <<lk_others, lk_pc, lk_refresh_lock, lk_set_lock, lk_entered,
                   lk_pending, lk_events, lk_collected, lk_dirty, lk_elapsed,
                   lk_job, lk_probes, lk_builds, lk_last>>

\* icloud_refresh_period passes since self._latest_refresh_time
LkTimePasses ==
    /\ ~lk_elapsed
    /\ lk_elapsed' = TRUE
    /\ UNCHANGED <<lk_others, lk_counted, lk_pc, lk_refresh_lock, lk_set_lock, lk_entered,
                   lk_pending, lk_events, lk_collected, lk_changed, lk_dirty,
                   lk_refresh, lk_torn, lk_job, lk_probes, lk_builds, lk_budget,
                   lk_last>>

\* _collect_events_until_empty("eventQ"): an event is taken off the queue
LkCollect ==
    /\ lk_pc = "collect"
    /\ lk_events = 1
    /\ lk_events' = 0
    /\ lk_collected' = 1
    /\ UNCHANGED <<lk_others, lk_counted, lk_pc, lk_refresh_lock, lk_set_lock, lk_entered,
                   lk_pending, lk_changed, lk_dirty, lk_refresh, lk_torn,
                   lk_elapsed, lk_job, lk_probes, lk_builds, lk_budget, lk_last>>

\* the queue stayed empty for the debounce period;
\* with self._refresh_lock, self._pending_futures: the lock of the set object
\* self._pending_futures names now
LkEnter ==
    /\ lk_pc = "collect"
    /\ lk_events = 0
    /\ lk_refresh_lock = "free"
    /\ lk_set_lock = "free"
    /\ lk_refresh_lock' = "main"
    /\ lk_set_lock' = "main"
    /\ lk_entered' = TRUE
    /\ lk_pc' = "dispatch"
    /\ UNCHANGED <<lk_others, lk_counted, lk_pending, lk_events, lk_collected, lk_changed,
                   lk_dirty, lk_refresh, lk_torn, lk_elapsed, lk_job, lk_probes,
                   lk_builds, lk_budget, lk_last>>

\* self._dispatch_events(name="eventQ"): a handler may submit a future
LkDispatch ==
    /\ lk_pc = "dispatch"
    /\ \E n \in (IF lk_collected = 1 THEN {0, 1} ELSE {0}) :
        lk_pending' = IF n = 1 THEN 1 ELSE lk_pending
    /\ lk_collected' = 0
    /\ lk_pc' = "futures"
    /\ UNCHANGED <<lk_others, lk_counted, lk_refresh_lock, lk_set_lock, lk_entered,
                   lk_events, lk_changed, lk_dirty, lk_refresh, lk_torn,
                   lk_elapsed, lk_job, lk_probes, lk_builds, lk_budget, lk_last>>

\* _process_pending_futures: self._pending_futures becomes a new ThreadSafeSet,
\* whose lock nobody holds; a result may resubmit
LkProcessFutures ==
    /\ lk_pc = "futures"
    /\ lk_pending > 0
    /\ \E n \in Submits :
        /\ lk_pending' = n
        /\ lk_budget' = lk_budget - n
    /\ lk_entered' = FALSE
    /\ lk_set_lock' = "free"
    /\ UNCHANGED <<lk_others, lk_counted, lk_pc, lk_refresh_lock, lk_events, lk_collected,
                   lk_changed, lk_dirty, lk_refresh, lk_torn, lk_elapsed, lk_job,
                   lk_probes, lk_builds, lk_last>>

\* while self._pending_futures: is over
LkFuturesDone ==
    /\ lk_pc = "futures"
    /\ lk_pending = 0
    /\ lk_pc' = "refreshq"
    /\ UNCHANGED <<lk_others, lk_counted, lk_refresh_lock, lk_set_lock, lk_entered,
                   lk_pending, lk_events, lk_collected, lk_changed, lk_dirty,
                   lk_refresh, lk_torn, lk_elapsed, lk_job, lk_probes,
                   lk_builds, lk_budget, lk_last>>

\* the rescan hints are collected and dispatched; one may submit a rescan
LkRefreshQueue ==
    /\ lk_pc = "refreshq"
    /\ \E n \in Submits :
        /\ lk_pending' = n
        /\ lk_budget' = lk_budget - n
    /\ lk_pc' = "apply"
    /\ UNCHANGED <<lk_others, lk_counted, lk_refresh_lock, lk_set_lock, lk_entered,
                   lk_events, lk_collected, lk_changed, lk_dirty, lk_refresh,
                   lk_torn, lk_elapsed, lk_job, lk_probes, lk_builds, lk_last>>

\* the end of the with block releases the lock of the set object that was
\* entered
Released == IF lk_entered THEN "free" ELSE lk_set_lock

\* if self._refresh: nothing pending, the refresh is applied (which may
\* submit downloads) and becomes self._icloud
LkApply ==
    /\ lk_pc = "apply"
    /\ lk_refresh # "none"
    /\ lk_pending = 0
    /\ lk_events = 0
    /\ \E n \in Submits :
        /\ lk_pending' = n
        /\ lk_budget' = lk_budget - n
    /\ lk_changed' = (lk_refresh = "stale")
    /\ lk_refresh' = "none"
    /\ lk_last' = "applied"
    /\ lk_refresh_lock' = "free"
    /\ lk_set_lock' = Released
    /\ lk_entered' = FALSE
    /\ lk_pc' = "collect"
    /\ lk_counted' = (lk_refresh = "current")
    /\ UNCHANGED <<lk_others, lk_events, lk_collected, lk_dirty, lk_torn,
                   lk_elapsed, lk_job, lk_probes, lk_builds>>

\* "icloud refresh discarded due to pending futures or events"
LkDiscard ==
    /\ lk_pc = "apply"
    /\ lk_refresh # "none"
    /\ lk_pending > 0 \/ lk_events > 0
    /\ lk_refresh' = "none"
    /\ lk_last' = "discarded"
    /\ lk_refresh_lock' = "free"
    /\ lk_set_lock' = Released
    /\ lk_entered' = FALSE
    /\ lk_pc' = "collect"
    /\ UNCHANGED <<lk_others, lk_counted, lk_pending, lk_events, lk_collected, lk_changed,
                   lk_dirty, lk_torn, lk_elapsed, lk_job, lk_probes, lk_builds,
                   lk_budget>>

\* no refresh was published
LkLeave ==
    /\ lk_pc = "apply"
    /\ lk_refresh = "none"
    /\ lk_refresh_lock' = "free"
    /\ lk_set_lock' = Released
    /\ lk_entered' = FALSE
    /\ lk_pc' = "collect"
    /\ UNCHANGED <<lk_others, lk_counted, lk_pending, lk_events, lk_collected, lk_changed,
                   lk_dirty, lk_refresh, lk_torn, lk_elapsed, lk_job, lk_probes,
                   lk_builds, lk_budget, lk_last>>

\* _is_icloud_dirty up to its test: self._icloud_dirty is read first; then
\* len(self._pending_futures) takes the lock of the set; the call returns
\* unless the flag is clear, nothing is pending and no event is queued
LkDirtyCheck ==
    /\ lk_job["dirty"] = "idle"
    /\ ~lk_dirty
    /\ lk_set_lock = "free"
    /\ lk_pending = 0
    /\ lk_events = 0
    /\ lk_job' = [lk_job EXCEPT !["dirty"] = "probe"]
    /\ UNCHANGED <<lk_others, lk_counted, lk_pc, lk_refresh_lock, lk_set_lock, lk_entered,
                   lk_pending, lk_events, lk_collected, lk_changed, lk_dirty,
                   lk_refresh, lk_torn, lk_elapsed, lk_probes, lk_builds,
                   lk_budget, lk_last>>

\* self._icloud_dirty = self._icloud.is_dirty(): the counters of the drive
\* are read, compared with those the live tree's root and trash nodes hold,
\* and written into these nodes; _refresh_icloud(force=True) follows when
\* they differed
LkDirtyProbe ==
    /\ lk_job["dirty"] = "probe"
    /\ lk_probes' = 1 - lk_probes
    /\ lk_dirty' = ~lk_counted
    /\ lk_counted' = TRUE
    /\ lk_job' = [lk_job EXCEPT !["dirty"] = IF lk_counted THEN "idle" ELSE "quiesce"]
    /\ UNCHANGED <<lk_others, lk_pc, lk_refresh_lock, lk_set_lock, lk_entered,
                   lk_pending, lk_events, lk_collected, lk_changed, lk_refresh,
                   lk_torn, lk_elapsed, lk_builds, lk_budget, lk_last>>

\* a timer that refreshes only while the dirty flag is set
LkTimerTickIfDirty ==
    /\ lk_job["timer"] = "idle"
    /\ lk_elapsed
    /\ lk_dirty
    /\ lk_job' = [lk_job EXCEPT !["timer"] = "quiesce"]
    /\ UNCHANGED <<lk_others, lk_counted, lk_pc, lk_refresh_lock, lk_set_lock, lk_entered,
                   lk_pending, lk_events, lk_collected, lk_changed, lk_dirty,
                   lk_refresh, lk_torn, lk_elapsed, lk_probes, lk_builds,
                   lk_budget, lk_last>>

\* _refresh_icloud() of the timer: nothing happens before the period elapsed
LkTimerTick ==
    /\ lk_job["timer"] = "idle"
    /\ lk_elapsed
    /\ lk_job' = [lk_job EXCEPT !["timer"] = "quiesce"]
    /\ UNCHANGED <<lk_others, lk_counted, lk_pc, lk_refresh_lock, lk_set_lock, lk_entered,
                   lk_pending, lk_events, lk_collected, lk_changed, lk_dirty,
                   lk_refresh, lk_torn, lk_elapsed, lk_probes, lk_builds,
                   lk_budget, lk_last>>

\* the wait loop on unsafe_len() and qsize() ends
LkQuiesced(t) ==
    /\ lk_job[t] = "quiesce"
    /\ lk_pending = 0
    /\ lk_events = 0
    /\ lk_job' = [lk_job EXCEPT ![t] = "acquire"]
    /\ UNCHANGED <<lk_others, lk_counted, lk_pc, lk_refresh_lock, lk_set_lock, lk_entered,
                   lk_pending, lk_events, lk_collected, lk_changed, lk_dirty,
                   lk_refresh, lk_torn, lk_elapsed, lk_probes, lk_builds,
                   lk_budget, lk_last>>

\* with self._refresh_lock, self._pending_futures:
LkJobAcquire(t) ==
    /\ lk_job[t] = "acquire"
    /\ lk_refresh_lock = "free"
    /\ lk_set_lock = "free"
    /\ lk_refresh_lock' = t
    /\ lk_set_lock' = t
    /\ lk_torn' = FALSE
    /\ lk_job' = [lk_job EXCEPT ![t] = "walk"]
    /\ UNCHANGED <<lk_others, lk_counted, lk_pc, lk_entered, lk_pending, lk_events,
                   lk_collected, lk_changed, lk_dirty, lk_refresh, lk_elapsed,
                   lk_probes, lk_builds, lk_budget, lk_last>>

\* refresh.refresh() on a new ICloudTree: a walk no write interrupted is
\* consistent; it is published and the dirty flag cleared.  A torn walk may
\* fail the count, or pass it without the last write
LkBuild(t) ==
    /\ lk_job[t] = "walk"
    /\ lk_builds' = 1 - lk_builds
    /\ \E passes \in (IF lk_torn THEN {TRUE, FALSE} ELSE {TRUE}) :
        /\ lk_refresh' = IF ~passes THEN lk_refresh
                         ELSE IF lk_torn THEN "stale" ELSE "current"
        /\ lk_dirty' = IF passes THEN FALSE ELSE lk_dirty
    /\ lk_elapsed' = FALSE
    /\ lk_refresh_lock' = "free"
    /\ lk_set_lock' = "free"
    /\ lk_job' = [lk_job EXCEPT ![t] = "idle"]
    /\ UNCHANGED <<lk_others, lk_counted, lk_pc, lk_entered, lk_pending, lk_events,
                   lk_collected, lk_changed, lk_torn, lk_probes, lk_budget,
                   lk_last>>

LkNext ==
    \/ LkUserEvent
    \/ LkRemoteChange
    \/ LkTimePasses
    \/ LkCollect
    \/ LkEnter
    \/ LkDispatch
    \/ LkProcessFutures
    \/ LkFuturesDone
    \/ LkRefreshQueue
    \/ LkApply
    \/ LkDiscard
    \/ LkLeave
    \/ LkDirtyCheck
    \/ LkDirtyProbe
    \/ LkTimerTick
    \/ \E t \in JobThreads : LkQuiesced(t)
    \/ \E t \in JobThreads : LkJobAcquire(t)
    \/ \E t \in JobThreads : LkBuild(t)

SpecLock == LkInit /\ [][LkNext]_vars

\* the run loop: one thread, which takes a step whenever it can, and gets
\* the locks when the jobs, which hold them for one walk each, let go
LkRunLoop ==
    \/ LkCollect
    \/ LkEnter
    \/ LkDispatch
    \/ LkProcessFutures
    \/ LkFuturesDone
    \/ LkRefreshQueue
    \/ LkApply
    \/ LkDiscard
    \/ LkLeave

\* a job of the timeloop, which calls it again and again on its own thread
LkJob(t) ==
    \/ t = "dirty" /\ (LkDirtyCheck \/ LkDirtyProbe)
    \/ t = "timer" /\ LkTimerTick
    \/ LkQuiesced(t)
    \/ LkJobAcquire(t)
    \/ LkBuild(t)

\* the locks are held for a bounded time and the run loop waits a debounce
\* period between two rounds, so a thread that waits for them gets them
SpecLockFair ==
    /\ LkInit
    /\ [][LkNext]_vars
    /\ WF_vars(LkTimePasses)
    /\ SF_vars(LkRunLoop)
    /\ \A t \in JobThreads : SF_vars(LkJob(t))

\* ------------------------------------------------------------------------
\* The initial sync with items in the drive's trash.  The sync directory and
\* the drive hold any of the files f and g; the trash holds items whose
\* restore paths are among the files the drive's root does not hold.  The
\* initial refresh succeeds, the user and other devices do nothing.
\* ------------------------------------------------------------------------
RECURSIVE _delete_icloud_trash_items(_, _, _)
\* names is what the restore paths of self._icloud.keys(root=False) come to;
\* n paths are still to visit
_delete_icloud_trash_items(s, names, n) ==
    IF n = 0 THEN s
    ELSE LET path == PathList[Len(PathList) - n + 1]
             s1 == IF path \notin names \/ path = ROOT_FOLDER_NAME THEN s
                   ELSE _delete_local([s EXCEPT !.suppressed = @ \cup {path}], path)
         IN _delete_icloud_trash_items(s1, names, n - 1)

TrInit ==
    /\ cq_name = "eventQ"
    /\ cq_events = << >>
    /\ cq_coalesced = << >>
    /\ cq_pc = "off"
    /\ pm_data = << >>
    /\ pm_call = << >>
    /\ pm_snapshot = {}
    /\ pm_before = << >>
    /\ pm_seen = {}
    /\ pm_pc = "off"
    /\ ignore_regexes = builtin_ignore_regexes
    /\ includes_regexes = << >>
    /\ ig_path = << >>
    /\ ig_result = FALSE
    /\ RcOff
    /\ JbOff
    /\ MkOff
    /\ LkOff
    /\ \E d \in InitTrees, r \in InitTrees :
        /\ Constructed(d, r)
        /\ tr_trash \in SUBSET (Files \ Keys(r))

\* run() up to _sync_common: both trees are refreshed and the three syncs
\* submit their uploads and downloads
TrSync ==
    /\ pc = "start"
    /\ icloud' = ICloudTree(drive, TRUE, TRUE)
    /\ Becomes(InitialSync([S EXCEPT !.local = disk], drive))
    /\ pc' = "trash"
    /\ UNCHANGED <<cq_vars, drive, refresh, event_queue, refresh_queue,
                   event_collector, dispatching, result, sync_op, refresh_lock,
                   job_pc, timeloop, error_log, refresh_log, clock, fault_budget>>

\* self._delete_icloud_trash_items(), and the jobs are started
TrDeleteTrashItems ==
    /\ pc = "trash"
    /\ Becomes(_delete_icloud_trash_items(S, tr_trash, Len(PathList)))
    /\ event_collector' = << >>
    /\ timeloop' = TRUE
    /\ pc' = "collect"
    /\ UNCHANGED <<cq_vars, drive, icloud, refresh, event_queue, refresh_queue,
                   dispatching, result, sync_op, refresh_lock, job_pc,
                   error_log, refresh_log, clock, fault_budget>>

TrNext ==
    \/ TrSync
    \/ TrDeleteTrashItems
    \/ Collect
    \/ AcquireLock
    \/ DispatchDone
    \/ FuturesRound
    \/ TakeResult
    \/ HandleActionResult
    \/ ProcessRefreshQueue
    \/ ApplyRefresh
    \/ SerialStart
    \/ UploadFinish
    \/ DownloadRun
    \/ ProcessFolderRun

SpecTrash == TrInit /\ [][TrNext]_vars

\* ------------------------------------------------------------------------
\* The reconciler, its pools and the refresh job when all the user does is
\* delete files and no other device writes to the drive
\* ------------------------------------------------------------------------
SdNext ==
    \/ \E p \in Files : UserDelete(p)
    \/ Start
    \/ Collect
    \/ AcquireLock
    \/ DispatchEvent
    \/ DispatchDone
    \/ FuturesRound
    \/ TakeResult
    \/ HandleActionResult
    \/ ProcessRefreshQueue
    \/ ApplyRefresh
    \/ SerialStart
    \/ UploadFinish
    \/ DeleteFinish
    \/ DownloadRun
    \/ ProcessFolderRun
    \/ JobQuiesced
    \/ JobAcquire
    \/ JobBuild

SpecStale == Init /\ [][SdNext]_vars

\* ------------------------------------------------------------------------
\* A file moved soon after it was made.  The sync directory holds folder a
\* and, or not, file f, in sync with the drive; the user writes f and moves
\* it to g (same parent) or to a/f (another parent); remote calls succeed.
\* The model follows the batch to the end of its dispatch and the workers
\* that run what it submitted.
\* ------------------------------------------------------------------------
XmFile == <<"f">>
XmPaths == {ROOT_FOLDER_NAME, <<"a">>, XmFile, <<"g">>, <<"a", "f">>}

XmInit ==
    /\ cq_name = "eventQ"
    /\ cq_events = << >>
    /\ cq_coalesced = << >>
    /\ cq_pc = "off"
    /\ UnitOff
    /\ \E f \in {Absent, File(1, 1)} :
        LET t == [k \in XmPaths |->
                    IF k \in {ROOT_FOLDER_NAME, <<"a">>} THEN Folder
                    ELSE IF k = XmFile THEN f ELSE Absent]
        IN /\ disk = t
           /\ local = t
           /\ drive = t
           /\ icloud = ICloudTree(t, TRUE, TRUE)
    /\ event_queue = << >>
    /\ event_collector = << >>
    /\ refresh = << >>
    /\ refresh_queue = << >>
    /\ dispatching = << >>
    /\ suppressed = {}
    /\ futures = << >>
    /\ result = NoResult
    /\ sync_op = NoSyncOp
    /\ refresh_lock = "free"
    /\ pc = "collect"
    /\ job_pc = "idle"
    /\ timeloop = TRUE
    /\ error_log = << >>
    /\ refresh_log = "none"
    /\ clock = 2
    /\ fault_budget = 0

\* the user writes file f
XmUserWrite ==
    /\ clock <= MaxClock + 1
    /\ disk' = [disk EXCEPT ![XmFile] = File(clock, 1)]
    /\ clock' = clock + 1
    /\ event_queue' = _enqueue(event_queue, suppressed,
                        IF disk[XmFile] = Absent THEN FileCreated ELSE FileModified,
                        XmFile, NoPath)
    /\ UNCHANGED <<cq_vars, drive, local, icloud, refresh, refresh_queue,
                   event_collector, dispatching, suppressed, futures, result,
                   sync_op, refresh_lock, pc, job_pc, timeloop, error_log,
                   refresh_log, fault_budget>>

\* the user moves file f to dst
XmUserMove(dst) ==
    /\ clock <= MaxClock + 1
    /\ IsFile(disk[XmFile])
    /\ disk[dst] = Absent
    /\ disk' = [disk EXCEPT ![dst] = disk[XmFile], ![XmFile] = Absent]
    /\ clock' = clock + 1
    /\ event_queue' = _enqueue(event_queue, suppressed, FileMoved, XmFile, dst)
    /\ UNCHANGED <<cq_vars, drive, local, icloud, refresh, refresh_queue,
                   event_collector, dispatching, suppressed, futures, result,
                   sync_op, refresh_lock, pc, job_pc, timeloop, error_log,
                   refresh_log, fault_budget>>

\* self._icloud.rename, called by _handle_file_moved
XmRenameComplete == sync_op.op = "rename" /\ RenameComplete

XmRenameReturn == sync_op.op = "rename" /\ RenameReturn

XmNext ==
    \/ XmUserWrite
    \/ \E dst \in {<<"g">>, <<"a", "f">>} : XmUserMove(dst)
    \/ Collect
    \/ AcquireLock
    \/ MvDispatchEvent
    \/ XmRenameComplete
    \/ XmRenameReturn
    \/ MoveComplete
    \/ MoveReturn
    \/ DispatchDone
    \/ SerialStart
    \/ UploadFinish

SpecUnlisted == XmInit /\ [][XmNext]_vars

\* ------------------------------------------------------------------------
\* A file moved into a folder made a moment before.  The sync directory
\* holds file f and, or not, folder a, in sync with the drive; the user
\* makes folder a and moves f to a/f; remote calls succeed.  The mkdir runs
\* on the serial pool, the move on the reconciler thread.
\* ------------------------------------------------------------------------
OdDest == <<"a", "f">>

OdInit ==
    /\ cq_name = "eventQ"
    /\ cq_events = << >>
    /\ cq_coalesced = << >>
    /\ cq_pc = "off"
    /\ UnitOff
    /\ \E a \in {Absent, Folder}, size \in {1, 2} :
        LET t == [k \in XmPaths |->
                    IF k = ROOT_FOLDER_NAME THEN Folder
                    ELSE IF k = FolderA THEN a
                    ELSE IF k = XmFile THEN File(1, size) ELSE Absent]
        IN /\ disk = t
           /\ local = t
           /\ drive = t
           /\ icloud = ICloudTree(t, TRUE, TRUE)
    /\ event_queue = << >>
    /\ event_collector = << >>
    /\ refresh = << >>
    /\ refresh_queue = << >>
    /\ dispatching = << >>
    /\ suppressed = {}
    /\ futures = << >>
    /\ result = NoResult
    /\ sync_op = NoSyncOp
    /\ refresh_lock = "free"
    /\ pc = "collect"
    /\ job_pc = "idle"
    /\ timeloop = TRUE
    /\ error_log = << >>
    /\ refresh_log = "none"
    /\ clock = 2
    /\ fault_budget = 0

\* the user moves f into folder a
OdUserMove ==
    /\ disk[FolderA] # Absent
    /\ XmUserMove(OdDest)

\* one turn of the loop of _dispatch_events over a created folder or a
\* moved file
OdDispatchEvent ==
    /\ pc = "dispatch"
    /\ dispatching # << >>
    /\ sync_op.st = "idle"
    /\ LET e == Head(dispatching)
           live == icloud.root
           s0 == [S EXCEPT !.suppressed = @ \cup {e.src_path, e.dest_path}]
       IN \/ /\ e.kind = FolderCreated
             /\ Becomes(_handle_folder_created(s0, e.src_path, live))
             /\ UNCHANGED sync_op
          \/ /\ e.kind = FileMoved
             /\ LET r == _handle_file_moved(s0, e, live)
                IN /\ Becomes(r.s)
                   /\ sync_op' = IF r.call = "none" THEN sync_op
                                 ELSE [op |-> r.call, src |-> e.src_path,
                                       dest |-> e.dest_path, st |-> "running"]
    /\ dispatching' = Tail(dispatching)
    /\ UNCHANGED <<cq_vars, drive, icloud, refresh, event_queue, refresh_queue,
                   event_collector, result, refresh_lock, pc, job_pc, timeloop,
                   error_log, refresh_log, clock, fault_budget>>

OdNext ==
    \/ CrUserMkdir
    \/ OdUserMove
    \/ Collect
    \/ AcquireLock
    \/ OdDispatchEvent
    \/ MoveComplete
    \/ MoveReturn
    \/ DispatchDone
    \/ SerialStart
    \/ CrMkDirFinish

SpecOrder == OdInit /\ [][OdNext]_vars

\* ------------------------------------------------------------------------
\* Writes of the user while a path is suppressed.  The sync directory and
\* the drive start in sync, the reconciler waiting for events; the user
\* writes files, twice at most; remote calls succeed, no other device writes
\* and no refresh job runs.
\* ------------------------------------------------------------------------
EcInit ==
    /\ cq_name = "eventQ"
    /\ cq_events = << >>
    /\ cq_coalesced = << >>
    /\ cq_pc = "off"
    /\ UnitOff
    /\ \E t \in InitTrees :
        /\ disk = t
        /\ local = t
        /\ drive = t
        /\ icloud = ICloudTree(t, TRUE, TRUE)
    /\ event_queue = << >>
    /\ event_collector = << >>
    /\ refresh = << >>
    /\ refresh_queue = << >>
    /\ dispatching = << >>
    /\ suppressed = {}
    /\ futures = << >>
    /\ result = NoResult
    /\ sync_op = NoSyncOp
    /\ refresh_lock = "free"
    /\ pc = "collect"
    /\ job_pc = "idle"
    /\ timeloop = TRUE
    /\ error_log = << >>
    /\ refresh_log = "none"
    /\ clock = 2
    /\ fault_budget = 0

\* the user writes a file; the watcher's callback runs _enqueue
EcUserWrite(p, size) ==
    /\ clock <= MaxClock + 1
    /\ disk' = [disk EXCEPT ![p] = File(clock, size)]
    /\ clock' = clock + 1
    /\ event_queue' = _enqueue(event_queue, suppressed,
                        IF disk[p] = Absent THEN FileCreated ELSE FileModified,
                        p, NoPath)
    /\ UNCHANGED <<cq_vars, drive, local, icloud, refresh, refresh_queue,
                   event_collector, dispatching, suppressed, futures, result,
                   sync_op, refresh_lock, pc, job_pc, timeloop, error_log,
                   refresh_log, fault_budget>>

EcReconcilerStep ==
    \/ Collect
    \/ AcquireLock
    \/ DispatchEvent
    \/ DispatchDone
    \/ FuturesRound
    \/ TakeResult
    \/ HandleActionResult
    \/ ProcessRefreshQueue
    \/ ApplyRefresh

EcWorkerStep ==
    \/ SerialStart
    \/ UploadFinish
    \/ ProcessFolderRun

EcNext ==
    \/ \E p \in Files, size \in {1, 2} : EcUserWrite(p, size)
    \/ EcReconcilerStep
    \/ EcWorkerStep

\* the reconciler thread and the pool workers are scheduled by the operating
\* system: a thread that can take a step takes one
SpecEcho ==
    /\ EcInit
    /\ [][EcNext]_vars
    /\ WF_vars(EcReconcilerStep)
    /\ WF_vars(EcWorkerStep)

\* ------------------------------------------------------------------------
\* A PathMap on its own: BaseTree.prune and BaseTree.re_key over self._root.
\* The loop of either method visits the keys of its snapshot in the order
\* the set yields them and takes the map's lock for one key at a time;
\* another thread may call keys() between two keys.
\* ------------------------------------------------------------------------
\* longest key path, and the number of keys put below the root
MaxDepth == 2
MaxKeys == 3

\* the names of files and folders: a, b and ab
Names == { <<"a">>, <<"b">>, <<"a", "b">> }

RECURSIVE PathsOfDepth(_)
PathsOfDepth(n) ==
    IF n = 0 THEN { << >> }
    ELSE { Append(p, c) : p \in PathsOfDepth(n - 1), c \in Names }

KeyPaths == UNION { PathsOfDepth(n) : n \in 1..MaxDepth }

\* dict.pop(key) and dict.__setitem__(key, value) on ThreadSafePathDict.data
pm_pop(data, key) ==
    [k \in DOMAIN data \ {_normalize(key)} |-> data[k]]
pm_setitem(data, key, value) ==
    [k \in DOMAIN data \cup {_normalize(key)} |->
        IF k = _normalize(key) THEN value ELSE data[k]]

\* the keys of data at or under path
KeysUnder(data, path) ==
    { k \in DOMAIN data : is_relative_to(parts(k), path) }

prune_step_by_text(data, k, path, inclusive) ==
    IF Len(str(path)) <= Len(k) /\ SubSeq(k, 1, Len(str(path))) = str(path)
    THEN IF ~inclusive /\ parts(k) = path THEN data
         ELSE IF k \in DOMAIN data THEN pm_pop(data, k) ELSE data
    ELSE data

\* the body of prune's loop for the key k of the snapshot
prune_step(data, k, path, inclusive) ==
    IF is_relative_to(parts(k), path)
    THEN IF ~inclusive /\ parts(k) = path THEN data
         ELSE IF k \in DOMAIN data THEN pm_pop(data, k) ELSE data
    ELSE data

\* the body of re_key's loop for the key k of the snapshot
re_key_step(data, k, old_path, new_path) ==
    IF is_relative_to(parts(k), old_path)
    THEN LET new_key == replace(k, str(old_path), str(new_path))
         IN IF k \in DOMAIN data
            THEN pm_setitem(pm_pop(data, k), new_key, data[k])
            ELSE data
    ELSE data

NoCall == [op |-> "none", path |-> << >>, new_path |-> << >>, inclusive |-> TRUE]

\* a tree holding the root folder only
PmInit ==
    /\ cq_name = "eventQ"
    /\ cq_events = << >>
    /\ cq_coalesced = << >>
    /\ cq_pc = "off"
    /\ pm_data = (<<".">> :> <<".">>)
    /\ pm_call = NoCall
    /\ pm_snapshot = {}
    /\ pm_before = pm_data
    /\ pm_seen = {}
    /\ pm_pc = "idle"
    /\ ignore_regexes = builtin_ignore_regexes
    /\ includes_regexes = << >>
    /\ ig_path = << >>
    /\ ig_result = FALSE
    /\ RcOff
    /\ JbOff
    /\ ExtraOff
    /\ Constructed(RootOnly, RootOnly)

\* self._root[path] = info for an entry of a folder the tree holds; the
\* value stands for the record made for this path
PmPut(path) ==
    /\ pm_pc = "idle"
    /\ Cardinality(DOMAIN pm_data) <= MaxKeys
    /\ str(path) \notin DOMAIN pm_data
    /\ str(parent(path)) \in DOMAIN pm_data
    /\ pm_data' = pm_setitem(pm_data, str(path), str(path))
    /\ pm_before' = pm_data'
    /\ UNCHANGED <<cq_name, cq_events, cq_coalesced, cq_pc, pm_call,
                   pm_snapshot, pm_seen, pm_pc, filter_vars,
                   rc_vars, jb_vars, extra_vars,
                   main_vars>>

\* prune(path, inclusive) for the root or an entry of a folder the tree
\* holds: for k in self.keys()
PruneCall(path, inclusive) ==
    /\ pm_pc = "idle"
    /\ str(parent(path)) \in DOMAIN pm_data
    /\ pm_call' = [op |-> "prune", path |-> path, new_path |-> << >>,
                   inclusive |-> inclusive]
    /\ pm_snapshot' = DOMAIN pm_data
    /\ pm_seen' = DOMAIN pm_data
    /\ pm_pc' = "loop"
    /\ UNCHANGED <<cq_name, cq_events, cq_coalesced, cq_pc, pm_data,
                   pm_before, filter_vars,
                   rc_vars, jb_vars, extra_vars,
                   main_vars>>

\* re_key(old_path, new_path) for an entry the tree holds that was moved to
\* a free place outside itself, in a folder the tree holds:
\* for k in list(self.keys())
ReKeyCall(old_path, new_path) ==
    /\ pm_pc = "idle"
    /\ str(old_path) \in DOMAIN pm_data
    /\ ~is_relative_to(new_path, old_path)
    /\ KeysUnder(pm_data, new_path) = {}
    /\ str(parent(new_path)) \in DOMAIN pm_data
    /\ pm_call' = [op |-> "re_key", path |-> old_path, new_path |-> new_path,
                   inclusive |-> TRUE]
    /\ pm_snapshot' = DOMAIN pm_data
    /\ pm_seen' = DOMAIN pm_data
    /\ pm_pc' = "loop"
    /\ UNCHANGED <<cq_name, cq_events, cq_coalesced, cq_pc, pm_data,
                   pm_before, filter_vars,
                   rc_vars, jb_vars, extra_vars,
                   main_vars>>

\* one iteration of the loop, under the lock
PmStep(k) ==
    /\ pm_pc = "loop"
    /\ k \in pm_snapshot
    /\ pm_snapshot' = pm_snapshot \ {k}
    /\ pm_data' = IF pm_call.op = "prune"
                  THEN prune_step(pm_data, k, pm_call.path, pm_call.inclusive)
                  ELSE re_key_step(pm_data, k, pm_call.path, pm_call.new_path)
    /\ UNCHANGED <<cq_name, cq_events, cq_coalesced, cq_pc, pm_call,
                   pm_before, pm_seen, pm_pc, filter_vars,
                   rc_vars, jb_vars, extra_vars,
                   main_vars>>

\* the loop is exhausted and the method returns
PmReturn ==
    /\ pm_pc = "loop"
    /\ pm_snapshot = {}
    /\ pm_pc' = "done"
    /\ UNCHANGED <<cq_name, cq_events, cq_coalesced, cq_pc, pm_data, pm_call,
                   pm_snapshot, pm_before, pm_seen, filter_vars,
                   rc_vars, jb_vars, extra_vars,
                   main_vars>>

\* ThreadSafePathDict.keys() called by another thread while the loop runs
PmKeys ==
    /\ pm_pc = "loop"
    /\ pm_seen' = DOMAIN pm_data
    /\ pm_seen' # pm_seen
    /\ UNCHANGED <<cq_name, cq_events, cq_coalesced, cq_pc, pm_data, pm_call,
                   pm_snapshot, pm_before, pm_pc, filter_vars,
                   rc_vars, jb_vars, extra_vars,
                   main_vars>>

PmNext ==
    \/ \E path \in KeyPaths : PmPut(path)
    \/ \E path \in KeyPaths \cup {ROOT_FOLDER_NAME}, inclusive \in BOOLEAN :
          PruneCall(path, inclusive)
    \/ \E old_path \in KeyPaths, new_path \in KeyPaths :
          ReKeyCall(old_path, new_path)
    \/ \E k \in pm_snapshot : PmStep(k)
    \/ PmReturn
    \/ PmKeys

SpecPathMap == PmInit /\ [][PmNext]_vars

\* ------------------------------------------------------------------------
\* Properties of the coalescer
\* ------------------------------------------------------------------------
\* e comes before f in the order list.sort(key=timestamp) gives the batch:
\* by timestamp, and by position in the batch for equal timestamps
SortsBefore(e, f) ==
    \/ e.timestamp < f.timestamp
    \/ e.timestamp = f.timestamp /\ e.id < f.id

EventSet(s) == { s[i] : i \in 1..Len(s) }

BatchOfPath(p) == { e \in EventSet(cq_events) : e.src_path = p }

\* the last event of the given kinds of path p
LastOf(p, kinds) ==
    CHOOSE e \in BatchOfPath(p) :
        /\ e.kind \in kinds
        /\ \A f \in BatchOfPath(p) : f.kind \in kinds /\ f # e => SortsBefore(f, e)

FirstOfPath(p) ==
    CHOOSE e \in BatchOfPath(p) :
        \A f \in BatchOfPath(p) : f # e => SortsBefore(e, f)

AllKinds == WatcherKinds \cup {FolderModified, ICloudFolderModified}

\* the event the per-path selection keeps for p
KeptOfPath(p) ==
    LET kept == CoalescePerPath(cq_events)
    IN kept[CHOOSE i \in 1..Len(kept) : kept[i].src_path = p]

HasKind(p, kinds) == \E e \in BatchOfPath(p) : e.kind \in kinds

\* C7: for every path whose batch holds a Delete, the event kept for the
\* path is its last (latest-timestamp) Delete, and no other event of that
\* path is in the list _coalesce_events returns.
C7_LastDeleteKept ==
    cq_pc = "coalesced" =>
        \A p \in CoalescePaths :
            HasKind(p, DeleteKinds) =>
                /\ KeptOfPath(p) = LastOf(p, DeleteKinds)
                /\ \A e \in EventSet(cq_coalesced) :
                        e.src_path = p => e = LastOf(p, DeleteKinds)

\* a Delete that is neither first nor last of its path's batch was kept
C7_Witness ==
    /\ cq_pc = "coalesced"
    /\ \E p \in CoalescePaths :
        /\ HasKind(p, DeleteKinds)
        /\ \E e, f \in BatchOfPath(p) :
              /\ e.kind \notin DeleteKinds /\ f.kind \notin DeleteKinds
              /\ SortsBefore(e, LastOf(p, DeleteKinds))
              /\ SortsBefore(LastOf(p, DeleteKinds), f)
        /\ LastOf(p, DeleteKinds) \in EventSet(cq_coalesced)

\* C8: for every path whose batch holds a Move and no Delete, the event
\* kept for the path is its last Move, for file and folder moves alike.
C8_LastMoveKept ==
    cq_pc = "coalesced" =>
        \A p \in CoalescePaths :
            (HasKind(p, MoveKinds) /\ ~HasKind(p, DeleteKinds)) =>
                KeptOfPath(p) = LastOf(p, MoveKinds)

\* C9: for every path whose batch holds neither a Delete nor a Move, the
\* event kept is the first one if it is a Create, else the last one.
C9_CreateFirstElseLast ==
    cq_pc = "coalesced" =>
        \A p \in CoalescePaths :
            (BatchOfPath(p) # {} /\ ~HasKind(p, MoveKinds \cup DeleteKinds)) =>
                KeptOfPath(p) =
                    IF FirstOfPath(p).kind \in CreateKinds
                    THEN FirstOfPath(p)
                    ELSE LastOf(p, AllKinds)

\* both rules happen in one batch: a path whose first event is a Create
\* followed by more events, and a path that is not created first
C9_Witness ==
    /\ cq_pc = "coalesced"
    /\ \E p, q \in CoalescePaths :
        /\ ~HasKind(p, MoveKinds \cup DeleteKinds)
        /\ ~HasKind(q, MoveKinds \cup DeleteKinds)
        /\ Cardinality(BatchOfPath(p)) >= 2
        /\ FirstOfPath(p).kind \in CreateKinds
        /\ KeptOfPath(p) \in EventSet(cq_coalesced)
        /\ BatchOfPath(q) # {}
        /\ FirstOfPath(q).kind \notin CreateKinds

\* C10: coalescing the list _coalesce_events returned changes nothing.
C10_CoalesceIdempotent ==
    cq_pc = "coalesced" => _coalesce_events(cq_coalesced) = cq_coalesced

\* ------------------------------------------------------------------------
\* Properties of the conflation passes
\* ------------------------------------------------------------------------
ConflateKinds == {FolderDeleted, FolderMoved}

\* p is below q
StrictlyInside(p, q) == p # q /\ is_relative_to(p, q)

\* C11: for each kind K of folder event, what the pass for K returns holds
\* no event of kind K whose src_path lies strictly inside the src_path of
\* another event of kind K of the list the pass was given.
C11_NoNestedFolderEvent ==
    cq_pc = "conflated" =>
        \A K \in ConflateKinds :
            \A e \in EventSet(_conflate_folder_events(cq_events, K)) :
                e.kind = K =>
                    ~\E o \in EventSet(cq_events) :
                        o.kind = K /\ StrictlyInside(e.src_path, o.src_path)

FileKinds == {FileCreated, FileModified, FileMoved, FileDeleted}

\* C12: for each kind K of folder event and each event of kind K with
\* src_path F in the list given to the pass, what the pass returns holds no
\* file event of any kind whose src_path is F or lies inside F.
C12_NoCoveredFileEvent ==
    cq_pc = "conflated" =>
        \A K \in ConflateKinds :
            \A o \in EventSet(cq_events) :
                o.kind = K =>
                    ~\E e \in EventSet(_conflate_folder_events(cq_events, K)) :
                        e.kind \in FileKinds /\ is_relative_to(e.src_path, o.src_path)

\* C13: for each kind K of folder event, applying the pass for K to what
\* the pass for K returned changes nothing.
C13_ConflateFixedPoint ==
    cq_pc = "conflated" =>
        \A K \in ConflateKinds :
            _conflate_folder_events(_conflate_folder_events(cq_events, K), K)
                = _conflate_folder_events(cq_events, K)

\* ------------------------------------------------------------------------
\* Properties of a debounce window
\* ------------------------------------------------------------------------
IsSorted(evs) ==
    \A i, j \in 1..Len(evs) : i < j => evs[i].timestamp <= evs[j].timestamp

\* the last n elements of evs
LastN(evs, n) == SubSeq(evs, Len(evs) - n + 1, Len(evs))

\* the list before its final sort
Unsorted(evts) ==
    _conflate_folder_events(
        _conflate_folder_events(CoalescePerPath(evts), FolderDeleted),
        FolderMoved)

BurstOnly(p) ==
    /\ Len(event_collector) = 3
    /\ \A i \in 1..3 : event_collector[i].src_path = p
    /\ event_collector[1].kind = FileCreated
    /\ event_collector[2].kind = FileModified
    /\ event_collector[3].kind = FileDeleted

\* C16: a create + modify + delete burst on one path is coalesced to its
\* Delete alone; while the window is dispatched no upload and no mkdir is
\* submitted, only (at most) a delete of that path; and the step that
\* dispatches the Delete submits nothing at all, on any thread, when the
\* live tree has no record of the path.
C16_BurstIsOneDelete ==
    /\ [](\A p \in Files :
            (pc = "dispatch" /\ BurstOnly(p)) =>
                /\ _coalesce_events(event_collector) = << event_collector[3] >>
                /\ Len(futures) <= 1
                /\ \A i \in 1..Len(futures) :
                        futures[i].op = "delete" /\ futures[i].path = p
                /\ sync_op = NoSyncOp)
    /\ [][ \A p \in Files :
            (pc = "dispatch" /\ BurstOnly(p) /\ dispatching # << >>
                /\ dispatching' # dispatching) =>
                /\ dispatching' = << >>
                /\ sync_op' = NoSyncOp
                /\ local'[p] = Absent
                /\ icloud' = icloud
                /\ futures' = IF icloud.root[p] = Absent THEN << >>
                              ELSE << Future("delete", p, icloud.root[p],
                                             MAX_RETRIES, 1, "limited", << >>) >>
          ]_vars

\* the Delete of such a burst was dispatched for a path the live tree does
\* not list, and for one it lists
C16_Witness ==
    \E p \in Files :
        /\ pc = "dispatch"
        /\ BurstOnly(p)
        /\ dispatching = << >>
        /\ local[p] = Absent
        /\ \/ icloud.root[p] = Absent /\ icloud.succeeded
           \/ icloud.root[p] # Absent /\ Len(futures) = 1

\* ------------------------------------------------------------------------
\* Properties of a folder move
\* ------------------------------------------------------------------------
\* the folder's own event in the collected batch
FolderMovedEvents ==
    { i \in 1..Len(event_collector) :
        /\ event_collector[i].kind = FolderMoved
        /\ event_collector[i].src_path = MovedFolder
        /\ event_collector[i].dest_path = MovedTo }

\* the batch is one FolderMoved of p/q plus file-level events of paths
\* inside p/q
MoveBatch ==
    /\ Cardinality(FolderMovedEvents) = 1
    /\ \A i \in 1..Len(event_collector) : i \notin FolderMovedEvents =>
            /\ event_collector[i].kind \in FileKinds
            /\ StrictlyInside(event_collector[i].src_path, MovedFolder)

AppliesRename(id, old, new) ==
    /\ pc = "apply"
    /\ pc' = "collect"
    /\ refresh # << >>
    /\ CanApply
    /\ IsRenamed(icloud.root, refresh[1].root, id)
    /\ old = PathOfId(icloud.root, id)
    /\ new = PathOfId(refresh[1].root, id)

\* the file was renamed on disk, nothing was downloaded to new, and the
\* live remote tree lists new and not old
RenamedInPlace(old, new) ==
    /\ disk'[new] = disk[old]
    /\ disk'[old] = Absent
    /\ \A i \in 1..Len(futures') : futures'[i].op # "download"
    /\ icloud'.root[old] = Absent
    /\ icloud'.root[new] # Absent

\* what holds of the step: all of the above but the local tree
C18_RenamedOnDiskAndRemote ==
    [][ \A id \in docwsids(icloud.root), old \in Files, new \in Files :
            AppliesRename(id, old, new) => RenamedInPlace(old, new) ]_vars

\* C18: applying a refresh in which a stable id of the live tree has a new
\* name renames the local file (no download of new, no local delete of
\* old), and afterwards old is absent from, and new is present in, both
\* the local tree and the live remote tree.
C18_RenameAppliedFirst ==
    [][ \A id \in docwsids(icloud.root), old \in Files, new \in Files :
            AppliesRename(id, old, new) =>
                /\ RenamedInPlace(old, new)
                /\ local'[old] = Absent
                /\ local'[new] # Absent ]_vars

\* ------------------------------------------------------------------------
\* Properties of the reconciler
\* ------------------------------------------------------------------------
\* nothing is left to do: the event queues are drained, no future is
\* tracked, no refresh waits to be applied, and every thread is idle
Reconciled ==
    /\ pc = "collect"
    /\ refresh_lock = "free"
    /\ job_pc = "idle"
    /\ futures = << >>
    /\ result = NoResult
    /\ sync_op = NoSyncOp
    /\ event_queue = << >>
    /\ refresh_queue = << >>
    /\ event_collector = << >>
    /\ dispatching = << >>
    /\ refresh = << >>

\* no call on the drive has failed
NoFault == fault_budget = MaxFaults /\ error_log = << >> /\ icloud.succeeded

CommonFiles == { p \in Files : IsFile(local[p]) /\ IsFile(icloud.root[p]) }

\* C1: once everything is reconciled and no call has failed, every file of
\* both the local tree and the live tree has the same modification time
\* in both.  The one exception granted is the later local file that is
\* empty, which _handle_file_modified skips on purpose.
C1_Converged ==
    (Reconciled /\ NoFault) =>
        \A p \in CommonFiles :
            \/ local[p].mtime = icloud.root[p].mtime
            \/ local[p].mtime > icloud.root[p].mtime /\ local[p].size = 0

\* the calls that change the drive
RemoteMutations == {"upload", "delete", "rename", "move", "create_icloud_folders"}

\* the remote mutations in progress: those a pool worker is running and
\* the one the reconciler thread is running itself
MutationsRunning ==
    Cardinality({ i \in 1..Len(futures) :
                    futures[i].op \in RemoteMutations /\ futures[i].st = "running" })
    + (IF sync_op.op \in RemoteMutations /\ sync_op.st = "running" THEN 1 ELSE 0)

\* C2: in no reachable state are two remote mutations (upload, delete,
\* rename, move, mkdir) in progress at the same time, over all threads.
C2_OneRemoteMutation == MutationsRunning <= 1

\* the step in which run() sets self._refresh back to None
RefreshConsumed == refresh # << >> /\ refresh' = << >>

\* the reconciler holds the lock, tracks no future and sees no queued event
Quiet ==
    /\ refresh_lock = "main"
    /\ InFlight(futures) = {}
    /\ event_queue = << >>

InitialRefresh == pc = "start" /\ pc' = "collect"

\* C4: a tree whose refresh() returned False is never published in
\* self._refresh, the initial sync submits nothing when the initial
\* refresh failed, and the tree refresh application installs as the live
\* tree is one whose refresh() succeeded.
C4_NoInconsistentRefresh ==
    /\ [](refresh # << >> => refresh[1].succeeded)
    /\ [][ /\ (InitialRefresh /\ ~icloud'.succeeded) =>
                (futures' = futures /\ suppressed' = suppressed /\ disk' = disk)
           /\ (RefreshConsumed /\ icloud' # icloud) => icloud'.succeeded ]_vars

\* the refresh job built an inconsistent tree and nothing was published
C4_Witness ==
    /\ refresh_log = "is inconsistent"
    /\ job_pc = "idle"
    /\ refresh = << >>

\* the reconciler thread holds a failed result that has retries left
FailedWithRetries == result # NoResult /\ ~result.success /\ result.left > 0

\* C5: whenever the reconciler is done with a failed result of any kind
\* that has retries left, it has submitted the same call again with
\* retries_left - 1 retries, to the unlimited pool for a download and to
\* the limited pool for everything else.
C5_FailureResubmitted ==
    [][ (FailedWithRetries /\ result' = NoResult) =>
            /\ Len(futures') = Len(futures) + 1
            /\ LET fut == futures'[Len(futures')]
               IN /\ fut.op = result.op
                  /\ fut.path = result.path
                  /\ fut.retry = result.left
                  /\ fut.st = "queued"
                  /\ fut.pool = IF result.cls = "Download"
                                THEN "unlimited" ELSE "limited" ]_vars

\* the reconciler thread holds a failed result that has no retry left
FailedForGood == result # NoResult /\ ~result.success /\ result.left <= 0

EnqueueRule(src, dest) ==
    IF src \in suppressed \/ (dest # NoPath /\ dest \in suppressed)
    THEN event_queue' = event_queue
    ELSE /\ Len(event_queue') = Len(event_queue) + 1
         /\ SubSeq(event_queue', 1, Len(event_queue)) = event_queue
         /\ event_queue'[Len(event_queue')].src_path = src
         /\ event_queue'[Len(event_queue')].dest_path = dest

\* C15: an event the watcher offers leaves the event queue unchanged when
\* its src_path or its dest_path is in the suppressed set, and else adds
\* exactly one entry for it at the end of the queue.  (No path is ignored
\* by a filter here.)
C15_EnqueueRule ==
    [][ /\ \A p \in Files, size \in {0, 1} :
              UserWrite(p, size) => EnqueueRule(p, NoPath)
        /\ \A p \in Files : UserDelete(p) => EnqueueRule(p, NoPath)
        /\ \A src, dst \in Files :
              UserRename(src, dst) => EnqueueRule(src, dst) ]_vars

\* ------------------------------------------------------------------------
\* Properties of download suppression
\* ------------------------------------------------------------------------
\* a download of p the reconciler tracks has not been processed yet
TrackedDownload(p) ==
    \E i \in InFlight(futures) :
        futures[i].op = "download" /\ futures[i].path = p

\* a download of p was submitted and has not been processed yet: it is
\* tracked, or it waits for its worker in a round that was abandoned
OutstandingDownload(p) ==
    \/ TrackedDownload(p)
    \/ \E i \in 1..Len(futures) :
            /\ futures[i].op = "download"
            /\ futures[i].path = p
            /\ futures[i].st = "queued"

\* a watcher event on p is offered to _enqueue
WatcherEventOn(p) ==
    \/ \E size \in {0, 1} : UserWrite(p, size)
    \/ UserDelete(p)
    \/ \E dst \in Files : UserRename(p, dst)

\* the step completes a tracked download of p with success
DownloadSucceeds(p) ==
    /\ Len(futures') = Len(futures)
    /\ \E i \in 1..Len(futures) :
        /\ futures[i].op = "download"
        /\ futures[i].path = p
        /\ futures[i].st = "queued"
        /\ futures'[i] = [futures[i] EXCEPT !.st = "done", !.cls = "Download"]
        /\ futures'[i].success

\* the suppressed set loses a path only when nothing is in flight, and a
\* download that succeeds leaves its path in the local tree
ClearedWhenIdle ==
    /\ [][ ~(suppressed \subseteq suppressed') => InFlight(futures) = {} ]_vars
    /\ [][ \A p \in Files : DownloadSucceeds(p) => local'[p] # Absent ]_vars

Settled ==
    /\ pc = "collect"
    /\ event_queue = << >>
    /\ event_collector = << >>
    /\ refresh_queue = << >>
    /\ futures = << >>
    /\ result = NoResult

\* C20: once the create of the non-empty file a/b has been drained, its
\* upload has succeeded and the futures and rescan hints that followed
\* have been processed, the live remote tree has a record at a/b with the
\* local size and mtime and the local tree contains a/b, also when folder
\* a was created in the same debounce window.
C20_CreateReachesLiveTree ==
    (Settled /\ IsFile(disk[FileB]) /\ drive[FileB] = disk[FileB]) =>
        /\ local[FileB] = disk[FileB]
        /\ icloud.root[FileB] = disk[FileB]

\* the part that holds: the local tree
C20_CreateReachesLocalTree ==
    (Settled /\ IsFile(disk[FileB]) /\ drive[FileB] = disk[FileB]) =>
        local[FileB] = disk[FileB]

\* ------------------------------------------------------------------------
\* Properties of the PathMap
\* ------------------------------------------------------------------------
\* new/rel(K, old)
Moved(K, old, new) == str(new \o SubSeq(parts(K), Len(old) + 1, Len(parts(K))))

ReKeyReturned == pm_pc = "done" /\ pm_call.op = "re_key"

\* C21: when re_key(old, new) has returned, every key K that was at or
\* under old is found at new/rel(K, old) with the value K had, no key at or
\* under old is left, every other key has kept its value, and the values
\* of the map are those it had, one key each
C21_ReKeyMovesSubtree ==
    ReKeyReturned =>
        LET old == pm_call.path
            new == pm_call.new_path
            under == KeysUnder(pm_before, old)
        IN /\ \A K \in under :
                /\ Moved(K, old, new) \in DOMAIN pm_data
                /\ pm_data[Moved(K, old, new)] = pm_before[K]
           /\ KeysUnder(pm_data, old) = {}
           /\ \A K \in DOMAIN pm_before \ under :
                K \in DOMAIN pm_data /\ pm_data[K] = pm_before[K]
           /\ Cardinality(DOMAIN pm_data) = Cardinality(DOMAIN pm_before)
           /\ { pm_data[k] : k \in DOMAIN pm_data }
                 = { pm_before[k] : k \in DOMAIN pm_before }

\* C21 holds of every key in which the text of old occurs once
TextOnce(K, old) == replace(K, str(old), <<"#">>) = <<"#">> \o SubSeq(K, Len(str(old)) + 1, Len(K))
C21_ReKeyWhenTextOccursOnce ==
    (ReKeyReturned /\ \A K \in KeysUnder(pm_before, pm_call.path) : TextOnce(K, pm_call.path))
        => C21_ReKeyMovesSubtree

PruneReturned == pm_pc = "done" /\ pm_call.op = "prune"

\* the keys prune(P, inclusive) has to remove: P and the keys that descend
\* from P by path components, P itself kept when inclusive is false
Pruned(data, P, inclusive) ==
    { K \in KeysUnder(data, P) : inclusive \/ parts(K) # P }

\* C22: when prune(P, inclusive) has returned, the keys removed are
\* exactly P and its descendants by path components (P itself kept when
\* inclusive is false), and every other key is left with its value
C22_PruneRemovesSubtree ==
    PruneReturned =>
        /\ DOMAIN pm_data
              = DOMAIN pm_before \ Pruned(pm_before, pm_call.path, pm_call.inclusive)
        /\ \A K \in DOMAIN pm_data : pm_data[K] = pm_before[K]

\* prune(a) of a tree holding a, a/b and ab has removed a and a/b and kept ab
C22_Witness ==
    /\ PruneReturned
    /\ pm_call.path = << <<"a">> >>
    /\ pm_call.inclusive
    /\ DOMAIN pm_before = { <<".">>, <<"a">>, <<"a", "/", "b">>, <<"a", "b">> }
    /\ DOMAIN pm_data = { <<".">>, <<"a", "b">> }

\* the keys the call in progress has to remove or re-key
Affected ==
    IF pm_call.op = "prune"
    THEN Pruned(pm_before, pm_call.path, pm_call.inclusive)
    ELSE KeysUnder(pm_before, pm_call.path)

\* C29: what keys() returns to another thread during prune or re_key never
\* shows the call half done: of the keys the call removes or re-keys, the
\* other thread sees all or none
C29_PruneReKeyAtomic ==
    pm_pc \in {"loop", "done"} => (pm_seen \cap Affected) \in {Affected, {}}

\* ------------------------------------------------------------------------
\* Properties of the trees
\* ------------------------------------------------------------------------
\* every key of the tree but the root has its parent path as a key
ParentsAreKeys(t) ==
    \A K \in DOMAIN t :
        (K # ROOT_FOLDER_NAME /\ t[K] # Absent) => t[parent(K)] # Absent

\* C23: in every state, every key of the local tree other than the root
\* has its parent path as a key, and so has every key of the live remote
\* tree
C23_ParentsAreKeys ==
    ParentsAreKeys(local) /\ ParentsAreKeys(icloud.root)

\* the part that holds where a folder is moved: the local tree
C23_LocalParentsAreKeys == ParentsAreKeys(local)

\* no key of the tree but the root is ignored by the filter
FilterHolds(t) ==
    \A K \in DOMAIN t :
        (K # ROOT_FOLDER_NAME /\ t[K] # Absent) => ~ignore(K)

\* C24: in every state no key other than the root of the local tree, of
\* the live remote tree or of a published refresh tree is ignored by the
\* filter
C24_NoIgnoredKey ==
    /\ FilterHolds(local)
    /\ FilterHolds(icloud.root)
    /\ refresh # << >> => FilterHolds(refresh.root)

\* the filter ignores every entry of a folder it ignores
IgnoresWholeFolders ==
    \A k \in CreatePaths : ignore(parent(k)) /\ parent(k) # ROOT_FOLDER_NAME => ignore(k)

\* C24 holds under the filters that ignore every entry of an ignored folder
C24_NoIgnoredKeyWholeFolders == IgnoresWholeFolders => C24_NoIgnoredKey

\* the live remote tree never holds an ignored key
C24_NoIgnoredRemoteKey == FilterHolds(icloud.root)

\* ------------------------------------------------------------------------
\* Properties of the filter
\* ------------------------------------------------------------------------
\* some regex of the list matches s
SomeMatch(regexes, s) == \E i \in 1..Len(regexes) : re_match(regexes[i], s)

\* C28: ignore(path) returns true exactly when some ignore regex, the two
\* built-in ones included, matches the path, or there are include regexes
\* and none of them matches; so an ignore match overrides an include
\* match, and without include regexes only an ignore match excludes
C28_IgnoreRule ==
    ig_path # << >> =>
        /\ ig_result = (\/ SomeMatch(ignore_regexes, ig_path)
                        \/ (includes_regexes # << >>
                              /\ ~SomeMatch(includes_regexes, ig_path)))
        /\ (SomeMatch(ignore_regexes, ig_path) /\ SomeMatch(includes_regexes, ig_path))
              => ig_result
        /\ (includes_regexes = << >> /\ ~SomeMatch(ignore_regexes, ig_path))
              => ~ig_result
        /\ SubSeq(ignore_regexes, 1, 2) = builtin_ignore_regexes

\* a path that a user ignore regex and the include regex both match was
\* ignored
C28_Witness ==
    /\ ig_path = <<"a", "/", "b">>
    /\ ig_result
    /\ Len(ignore_regexes) = 3
    /\ re_match(ignore_regexes[3], ig_path)
    /\ SomeMatch(includes_regexes, ig_path)

\* ------------------------------------------------------------------------
\* Properties of the refresh
\* ------------------------------------------------------------------------
ReportedConsistent == rc_pc = "done" /\ rc_succeeded

\* C25: when refresh() reports a consistent build, file_count of the root
\* record plus file_count of the trash record equals the number of file
\* records in the root map plus the number in the trash map
C25_ConsistentCounts ==
    ReportedConsistent =>
        rc_fileCount + rc_trashFileCount
            = Cardinality(rc_root) + Cardinality(rc_trash)

\* what the comparison establishes: file_count of the root record alone
\* equals the number of file records of both maps
C25_ConsistentRootCount ==
    rc_pc = "done" =>
        (rc_succeeded <=> rc_fileCount = Cardinality(rc_root) + Cardinality(rc_trash))

\* C25 holds of the builds whose trash record has file_count 0
C25_ConsistentCountsEmptyTrash ==
    rc_trashFileCount = 0 => C25_ConsistentCounts

\* ------------------------------------------------------------------------
\* Properties of the periodic jobs
\* ------------------------------------------------------------------------
RemoteFailed == jb_last \in DriveExceptions \cup {"probe raised"}

Probed == jb_probes' # jb_probes

Built == jb_builds' # jb_builds

\* C26: a remote operation that fails with a login or API-response
\* exception leaves the jobs-paused flag set, and while the flag is set no
\* step of a periodic job probes the remote or builds a refresh tree
C26_PausedJobsSkip ==
    [][/\ RemoteFailed' => jb_disabled'
       /\ jb_disabled => ~Probed /\ ~Built]_vars

\* the first half of C26 alone
C26_FailureSetsFlag == [][RemoteFailed' => jb_disabled']_vars

\* what the code keeps instead of the second half: the dirty check does not
\* probe while the live tree is not logged in
C26_NoProbeUnauthenticated == [][~jb_auth => ~Probed]_vars

\* ------------------------------------------------------------------------
\* Properties of remote failures
\* ------------------------------------------------------------------------
Raised(i) == futures[i].st = "raised"

\* C27: no remote-layer operation lets an exception of the remote client
\* reach the reconciler: no future of one ends with an exception, and the
\* round that waits for the futures is never left for a restart of run()
C27_RemoteFailureReturned ==
    /\ [](\A i \in 1..Len(futures) : ~Raised(i))
    /\ [][~(pc = "futures" /\ pc' = "start")]_vars

\* every operation but process_folder returns its failure as a result
C27_OnlyProcessFolderRaises ==
    \A i \in 1..Len(futures) : Raised(i) => futures[i].op = "process_folder"

\* ------------------------------------------------------------------------
\* Properties of a local delete
\* ------------------------------------------------------------------------
\* the step dispatches the event at the head of the batch
HeadHandled ==
    /\ pc = "dispatch"
    /\ dispatching # << >>
    /\ dispatching' = Tail(dispatching)

\* the step handles a delete event whose path is in the sync directory again
DeleteOfExistingHandled ==
    /\ HeadHandled
    /\ Head(dispatching).kind \in DeleteKinds
    /\ disk[Head(dispatching).src_path] # Absent

\* C30: a FileDeleted or FolderDeleted event handled while its path exists
\* locally again is skipped: the local tree, the live remote tree and the
\* pending futures are as before, so no remote delete is submitted
C30_ReappearedSkipped ==
    [][DeleteOfExistingHandled =>
            /\ local' = local
            /\ icloud' = icloud
            /\ futures' = futures]_vars

\* the part of C30 about the live remote tree
C30_ReappearedKeepsRemoteTree ==
    [][DeleteOfExistingHandled => icloud' = icloud]_vars

\* a FolderDeleted event leaves no key at or under its path in the local
\* tree, whether or not the folder exists again
C30_FolderDeletedPrunes ==
    [][(HeadHandled /\ Head(dispatching).kind = FolderDeleted) =>
            \A k \in DOMAIN local :
                is_relative_to(k, Head(dispatching).src_path) => local'[k] = Absent]_vars

\* ------------------------------------------------------------------------
\* Properties of a local write
\* ------------------------------------------------------------------------
\* the calls the step submits, oldest first: operation, path and pool
Kept == Len(futures) <= Len(futures') /\ SubSeq(futures', 1, Len(futures)) = futures

Submitted ==
    [i \in 1..(Len(futures') - Len(futures)) |->
        << futures'[Len(futures) + i].op, futures'[Len(futures) + i].path,
           futures'[Len(futures) + i].pool >>]

\* the step handles a FileCreated or FileModified event of a file the sync
\* directory holds
WriteHandled ==
    /\ HeadHandled
    /\ Head(dispatching).kind \in {FileCreated, FileModified}
    /\ IsFile(disk[Head(dispatching).src_path])

\* C31: a FileCreated or FileModified event of a local file P submits, when
\* the live tree lists P, an upload to the serial pool iff the local mtime
\* is later than the remote one and the file is not empty, and nothing
\* otherwise; when the live tree does not list P it submits the upload,
\* after a mkdir of the parent when the live tree does not list the parent
C31_UploadRule ==
    [][WriteHandled =>
        LET P == Head(dispatching).src_path
            lfi == disk[P]
            cfi == icloud.root[P]
            upload == << "upload", P, "limited" >>
            mkdir == << "create_icloud_folders", parent(P), "limited" >>
        IN /\ Kept
           /\ IF cfi # Absent
              THEN IF lfi.mtime > cfi.mtime /\ lfi.size > 0
                   THEN Submitted \in { << upload >>, << mkdir, upload >> }
                   ELSE Submitted = << >>
              ELSE IF icloud.root[parent(P)] = Absent
                   THEN Submitted = << mkdir, upload >>
                   ELSE Submitted = << upload >>]_vars

\* an upload is pending of a file the live tree lists with an earlier
\* mtime, and the event has been dispatched
C31_Witness ==
    \E i \in 1..Len(futures) :
        /\ futures[i].op = "upload"
        /\ futures[i].st = "queued"
        /\ icloud.root[futures[i].path] # Absent
        /\ futures[i].info.mtime > icloud.root[futures[i].path].mtime
        /\ futures[i].info.size > 0
        /\ pc = "dispatch"
        /\ dispatching = << >>

\* ------------------------------------------------------------------------
\* Properties of the rescan hints
\* ------------------------------------------------------------------------
\* the reconciler is done with the result of a successful call of class cls
ResultHandled(cls) ==
    /\ result # NoResult
    /\ result.cls = cls
    /\ result.success
    /\ result' = NoResult

\* the step puts an ICloudFolderModified event for folder k on the refresh
\* queue
Hinted(k) ==
    \E i \in (Len(refresh_queue) + 1)..Len(refresh_queue') :
        /\ refresh_queue'[i].kind = ICloudFolderModified
        /\ refresh_queue'[i].src_path = k

\* C32: a successful Upload or Rename puts an ICloudFolderModified event for
\* the parent of its path on the refresh queue, and a successful Move one
\* for the parent of the source and one for the parent of the destination
C32_RescanHints ==
    [][/\ ResultHandled("Upload") => Hinted(parent(result.path))
       /\ ResultHandled("Rename") => Hinted(parent(result.path))
       /\ ResultHandled("Move") =>
            Hinted(parent(sync_op.src)) /\ Hinted(parent(sync_op.dest))]_vars

\* what _handle_action_result does for an Upload: the event for the parent
\* is put on the queue unless the parent is a suppressed path
C32_UploadHintUnlessSuppressed ==
    [][ResultHandled("Upload") =>
            (Hinted(parent(result.path)) <=> parent(result.path) \notin suppressed)]_vars

\* what _handle_file_moved does after its own rename or move: the events
\* are for the paths of the event, which it suppressed, so none is queued
C32_NoHintAfterMove ==
    [][(ResultHandled("Rename") \/ ResultHandled("Move")) =>
            refresh_queue' = refresh_queue]_vars

\* ------------------------------------------------------------------------
\* Properties of create_icloud_folders
\* ------------------------------------------------------------------------
\* the components of the path of the last call
Components == { SubSeq(mk_path, 1, i) : i \in 1..Len(mk_path) }

\* C33: mkdir(P) calls the drive's mkdir only for components of P the live
\* tree did not list; when the tree listed them all it calls none and returns
\* Nil; and a call that repeats a successful one returns Nil and leaves the
\* tree as it was
C33_MkdirIdempotent ==
    mk_pc \in {"called", "again"} =>
        /\ \A j \in 1..Len(mk_calls) :
            mk_calls[j] \in Components /\ mk_before[mk_calls[j]] = Absent
        /\ (\A k \in Components \cup {ROOT_FOLDER_NAME} : mk_before[k] # Absent)
            => mk_calls = << >> /\ mk_cls = "Nil"
        /\ mk_pc = "again"
            => mk_calls = << >> /\ mk_cls = "Nil" /\ mk_root = mk_before

\* a two-level path is made a second time
C33_Witness ==
    /\ mk_pc = "again"
    /\ Len(mk_path) = 2
    /\ mk_cls = "Nil"

\* ------------------------------------------------------------------------
\* Properties of the locks
\* ------------------------------------------------------------------------
\* the dirty check read the drive's counters in this step
LkProbed == lk_probes' # lk_probes

\* a job finished walking a refresh tree in this step
LkBuilt == lk_builds' # lk_builds

\* C34: while the run loop holds the refresh lock, the dirty check makes no
\* counter probe and no job builds a refresh tree
C34_JobsBlockedByLock ==
    [][lk_refresh_lock = "main" => ~LkProbed /\ ~LkBuilt]_vars

\* no refresh tree is built while the run loop holds the refresh lock
C34_NoBuildUnderLock == [][lk_refresh_lock = "main" => ~LkBuilt]_vars

\* the dirty check does not pass its test while the run loop holds the lock
\* of the set self._pending_futures names
C34_CheckWaitsForSetLock ==
    [][lk_set_lock = "main" => lk_job'["dirty"] = lk_job["dirty"] \/ lk_job["dirty"] # "idle"]_vars

\* ------------------------------------------------------------------------
\* Properties of the initial sync
\* ------------------------------------------------------------------------
\* the initial sync is over and the futures are all handled
SyncSettled ==
    /\ pc \notin {"start", "trash"}
    /\ futures = << >>
    /\ result = NoResult

\* C35: once the initial sync is over and its futures are complete, a path
\* that is the restore path of an item in the trash is in neither the local
\* tree nor the sync directory, and was not uploaded to the drive
C35_TrashCollected ==
    SyncSettled =>
        \A p \in tr_trash :
            local[p] = Absent /\ disk[p] = Absent /\ drive[p] = Absent

\* ------------------------------------------------------------------------
\* Properties of echo suppression
\* ------------------------------------------------------------------------
\* an event for the path is on its way to a handler
EventPending(p) ==
    \/ \E i \in 1..Len(event_queue) : event_queue[i].src_path = p
    \/ \E i \in 1..Len(event_collector) : event_collector[i].src_path = p
    \/ \E i \in 1..Len(dispatching) : dispatching[i].src_path = p

\* an upload of the file as it is in the sync directory is submitted
Uploading(p) ==
    \E i \in 1..Len(futures) :
        /\ futures[i].op = "upload"
        /\ futures[i].path = p
        /\ futures[i].info.mtime = disk[p].mtime

\* the drive holds the file with the content the sync directory holds: an
\* upload that was in flight read the file after the write
Carried(p) == IsFile(drive[p]) /\ drive[p].size = disk[p].size

\* the user wrote the file while its path was suppressed: the write is
\* known to no tree, no event for it is pending and no upload carries it
WrittenWhileSuppressed(p) ==
    /\ IsFile(disk[p])
    /\ disk[p].mtime >= 2
    /\ p \in suppressed
    /\ local[p].mtime # disk[p].mtime
    /\ ~EventPending(p)
    /\ ~Uploading(p)
    /\ ~Carried(p)

\* C36: a write of the user to a file whose path is suppressed leads to an
\* upload that carries it, be it one submitted later or one in flight that
\* reads the file after the write
C36_NoLostWrite ==
    \A p \in Files : WrittenWhileSuppressed(p) ~> (Uploading(p) \/ Carried(p))

\* a write to a suppressed path puts no event on the event queue
C36_SuppressedWriteDropped ==
    [][\A p \in Files :
        p \in suppressed /\ disk'[p] # disk[p] /\ clock' # clock
            => event_queue' = event_queue]_vars

\* ------------------------------------------------------------------------
\* Properties of a refresh that is out of date
\* ------------------------------------------------------------------------
\* the published refresh lists the file, which was deleted on both sides
\* since: the sync directory, the local tree, the drive and the live tree
\* (which a successful refresh built) are without it, nothing else differs
\* between the refresh and the live tree, and the run loop is about to
\* handle the refresh
StaleRefreshOf(p) ==
    /\ pc = "apply"
    /\ refresh # << >>
    /\ refresh[1].root[p] # Absent
    /\ icloud.succeeded
    /\ icloud.root[p] = Absent
    /\ \A q \in TreePaths \ {p} : refresh[1].root[q] = icloud.root[q]
    /\ drive[p] = Absent
    /\ disk[p] = Absent
    /\ local[p] = Absent

\* a download of the file is among the futures after the step
DownloadSubmitted(p) ==
    \E i \in 1..Len(futures') :
        /\ futures'[i].op = "download"
        /\ futures'[i].path = p
        /\ i > Len(futures)

\* C37: handling a refresh tree that still lists a file deleted in the same
\* locked round submits no download of that file
C37_NoResurrection ==
    [][\A p \in Files : StaleRefreshOf(p) => ~DownloadSubmitted(p)]_vars

\* a refresh is applied only when nothing is pending, whatever it lists
C37_StaleRefreshApplied ==
    [][\A p \in Files :
        StaleRefreshOf(p) /\ CanApply /\ pc' = "collect"
            => DownloadSubmitted(p) /\ icloud'.root[p] # Absent]_vars

\* ------------------------------------------------------------------------
\* Properties of a move whose source the live tree does not list
\* ------------------------------------------------------------------------
\* the step handles a FileMoved event whose source has no record in the
\* live tree and whose destination is a file of the sync directory
UnlistedMoveHandled ==
    /\ HeadHandled
    /\ Head(dispatching).kind = FileMoved
    /\ icloud.root[Head(dispatching).src_path] = Absent
    /\ IsFile(disk[Head(dispatching).dest_path])

\* an upload of the path is among the futures after the step
UploadSubmitted(p) ==
    \E i \in 1..Len(futures') : futures'[i].op = "upload" /\ futures'[i].path = p

\* C38: a FileMoved event whose source the live tree does not list adds the
\* destination to the local tree and submits an upload of it, whether the
\* parents are the same or differ
C38_UnlistedMoveUploads ==
    [][UnlistedMoveHandled =>
        /\ local'[Head(dispatching).dest_path] # Absent
        /\ UploadSubmitted(Head(dispatching).dest_path)]_vars

\* with the same parent the destination is added to the local tree, and
\* uploaded unless the live tree lists the destination and the file is
\* empty or not newer
C38_SameParentUploads ==
    [][(UnlistedMoveHandled
            /\ parent(Head(dispatching).src_path) = parent(Head(dispatching).dest_path)) =>
        LET dst == Head(dispatching).dest_path
            cfi == icloud.root[dst]
        IN /\ local'[dst] # Absent
           /\ UploadSubmitted(dst)
                <=> (cfi = Absent \/ (disk[dst].mtime > cfi.mtime /\ disk[dst].size > 0))]_vars

\* with different parents the handler submits nothing, and neither does
\* the move it calls
C38_OtherParentSubmitsNothing ==
    [][((UnlistedMoveHandled
            /\ parent(Head(dispatching).src_path) # parent(Head(dispatching).dest_path))
        \/ sync_op.op = "move") => futures' = futures]_vars

\* ------------------------------------------------------------------------
\* Properties of a move into a folder made in the same batch
\* ------------------------------------------------------------------------
MkdirOutstanding(p) ==
    \E i \in 1..Len(futures) :
        /\ futures[i].op = "create_icloud_folders"
        /\ futures[i].path = p
        /\ futures[i].st \in {"queued", "running"}

MoveExecuted ==
    /\ sync_op.op = "move"
    /\ sync_op.st = "running"
    /\ sync_op'.st = "done"

\* C39: a remote move dispatched after the FolderCreated of its destination
\* parent is executed only when that folder's mkdir has completed, and it
\* is never skipped for a destination parent the live tree does not list
C39_MoveAfterMkdir ==
    [][MoveExecuted =>
        /\ ~MkdirOutstanding(parent(sync_op.dest))
        /\ ~(icloud.root[sync_op.src] # Absent
                /\ icloud.root[parent(sync_op.dest)] = Absent)]_vars

\* a move executed while the mkdir of its destination parent is queued or
\* running, and the parent not yet listed, is skipped: Nil, and neither the
\* drive nor the live tree changes
C39_EarlyMoveSkipped ==
    [][(MoveExecuted /\ MkdirOutstanding(parent(sync_op.dest))
            /\ icloud.root[parent(sync_op.dest)] = Absent) =>
        /\ result'.cls = "Nil"
        /\ drive' = drive
        /\ icloud' = icloud]_vars

\* ------------------------------------------------------------------------
\* Properties of the refresh jobs
\* ------------------------------------------------------------------------
\* the live tree is the drive's: the last refresh applied was built after
\* the last write of another device
LiveTreeCurrent == ~lk_changed /\ lk_last = "applied"

\* C40: every change of the drive is in the end in the live tree: a
\* consistent refresh built after it is applied
C40_RemoteChangeApplied == lk_changed ~> LiveTreeCurrent

\* a change is seen, the forced walk is torn and fails its count, the dirty
\* flag stays set and the dirty check returns at once from now on
DirtyFlagLeftSet ==
    /\ lk_changed
    /\ lk_dirty
    /\ lk_refresh = "none"
    /\ lk_job["dirty"] = "idle"

\* a refresh was published and discarded; the counters were written into
\* the live tree's nodes, so the dirty check finds nothing
DiscardedUnseen ==
    /\ lk_changed
    /\ lk_last = "discarded"
    /\ lk_counted
    /\ ~lk_dirty
    /\ lk_refresh = "none"
    /\ \A t \in JobThreads : lk_job[t] = "idle"

\* the change is applied also after the dirty flag was left set
C40_AppliedAfterInconsistent == DirtyFlagLeftSet ~> LiveTreeCurrent

\* the change is applied also after a refresh was discarded
C40_AppliedAfterDiscard == DiscardedUnseen ~> LiveTreeCurrent

\* a refresh was discarded, the dirty check can see the change no more,
\* and the timer, its period over, walks the drive undisturbed
C40_Witness ==
    /\ lk_changed
    /\ lk_last = "discarded"
    /\ lk_counted
    /\ ~lk_dirty
    /\ lk_refresh = "none"
    /\ lk_job["timer"] = "walk"
    /\ ~lk_torn

====
